---- MODULE Spec2Model ----
(***************************************************************************)
(* A model of pogoCal.py: the LeekDuck event scraper (extraction of the    *)
(* listing page, enrichment of every record from its detail page on a      *)
(* pool of worker threads), the confirmation window and the calendar run   *)
(* that matches each selected record against the existing calendar        *)
(* entries.                                                                *)
(*                                                                         *)
(* Text is modelled as TLA+ strings, read character by character with      *)
(* SubSeq and Len.  A Python value that may be missing (dict.get giving    *)
(* None) is a sequence of length 0 or 1.                                    *)
(***************************************************************************)
EXTENDS Integers, Sequences, FiniteSets, TLC

-----------------------------------------------------------------------------
(* Optional values *)

None == << >>

Some(v) == << v >>

IsSome(o) == o # << >>

Get(o) == o[1]

\* Python truthiness of dict.get(key) for a string value: None and "" are false.
TruthyStr(o) == IsSome(o) /\ Get(o) # ""

-----------------------------------------------------------------------------
(* Characters and strings *)

UpperLetters == "ABCDEFGHIJKLMNOPQRSTUVWXYZ"

LowerLetters == "abcdefghijklmnopqrstuvwxyz"

Digits == "0123456789"

\* s[i], 1-based; "" outside the string
Char(s, i) == IF i \in 1..Len(s) THEN SubSeq(s, i, i) ELSE ""

CharsOf(s) == { Char(s, i) : i \in 1..Len(s) }

DigitChars == CharsOf(Digits)

\* re: \w
WordChars == CharsOf(UpperLetters) \cup CharsOf(LowerLetters) \cup DigitChars \cup {"_"}

\* re: \s, and the characters str.strip() removes
SpaceChars == {" ", "\n", "\t"}

Max(S) == CHOOSE x \in S : \A y \in S : y <= x

Min(S) == CHOOSE x \in S : \A y \in S : x <= y

LowerChar(c) ==
    IF c \in CharsOf(UpperLetters)
    THEN Char(LowerLetters, CHOOSE i \in 1..26 : Char(UpperLetters, i) = c)
    ELSE c

RECURSIVE Lower(_)
\* str.lower(), by halves
Lower(s) ==
    IF Len(s) <= 1 THEN LowerChar(s)
    ELSE Lower(SubSeq(s, 1, Len(s) \div 2)) \o Lower(SubSeq(s, Len(s) \div 2 + 1, Len(s)))

\* s[i:] starts with p (1-based i)
StartsAt(s, i, p) == i >= 1 /\ i + Len(p) - 1 <= Len(s) /\ SubSeq(s, i, i + Len(p) - 1) = p

\* p in s
Contains(s, p) == \E i \in 1..(Len(s) - Len(p) + 1) : StartsAt(s, i, p)

\* str.find, 1-based; 0 when absent
Find(s, p) ==
    IF Contains(s, p) THEN Min({ i \in 1..(Len(s) - Len(p) + 1) : StartsAt(s, i, p) }) ELSE 0

RECURSIVE RunEnd(_, _, _)
\* The end of the longest run of characters of set cs that starts at i
\* (i - 1 when s[i] is not in cs): a greedy cs* of a regular expression.
RunEnd(s, i, cs) == IF Char(s, i) \in cs THEN RunEnd(s, i + 1, cs) ELSE i - 1

\* str.strip()
Strip(s) ==
    LET keep == { i \in 1..Len(s) : Char(s, i) \notin SpaceChars }
    IN  IF keep = {} THEN "" ELSE SubSeq(s, Min(keep), Max(keep))

\* the first position from i on that holds a character of cs (Len(s) + 1: none)
FirstOf(s, i, cs) == Min({ k \in i..Len(s) : Char(s, k) \in cs } \cup { Len(s) + 1 })

RECURSIVE CollapseFrom(_, _)
\* s with the run of white space at p (if p is in s) and every later one
\* replaced by one space
CollapseFrom(s, p) ==
    IF p > Len(s) THEN s
    ELSE SubSeq(s, 1, p - 1) \o " "
         \o CollapseFrom(SubSeq(s, RunEnd(s, p, SpaceChars) + 1, Len(s)),
                         FirstOf(SubSeq(s, RunEnd(s, p, SpaceChars) + 1, Len(s)), 1, SpaceChars))

\* re.sub(r'\s+', ' ', s)
CollapseSpaces(s) == CollapseFrom(s, FirstOf(s, 1, SpaceChars))

RECURSIVE ReplaceFrom(_, _, _, _)
\* s with the occurrence of old at p (0: none) and every later one replaced
ReplaceFrom(s, p, old, new) ==
    IF p = 0 THEN s
    ELSE SubSeq(s, 1, p - 1) \o new
         \o ReplaceFrom(SubSeq(s, p + Len(old), Len(s)),
                        Find(SubSeq(s, p + Len(old), Len(s)), old), old, new)

\* str.replace(old, new), old not empty
Replace(s, old, new) == ReplaceFrom(s, Find(s, old), old, new)

DigitVal(c) == (CHOOSE i \in 1..10 : Char(Digits, i) = c) - 1

RECURSIVE ToInt(_)
\* int(s) of a string of digits
ToInt(s) ==
    IF s = "" THEN 0
    ELSE 10 * ToInt(SubSeq(s, 1, Len(s) - 1)) + DigitVal(Char(s, Len(s)))

DigitStr(d) == Char(Digits, d + 1)

\* '%02d'
Pad2(n) == DigitStr((n \div 10) % 10) \o DigitStr(n % 10)

\* '%04d'
Pad4(n) == Pad2(n \div 100) \o Pad2(n % 100)

-----------------------------------------------------------------------------
(* datetime.datetime, to the minute (no format of the program reads seconds) *)

DateTime(y, mo, d, h, mi) == [year |-> y, month |-> mo, day |-> d, hour |-> h, minute |-> mi]

IsLeap(y) == (y % 4 = 0 /\ y % 100 # 0) \/ y % 400 = 0

DaysInMonth(y, mo) ==
    IF mo = 2 THEN (IF IsLeap(y) THEN 29 ELSE 28)
    ELSE IF mo \in {4, 6, 9, 11} THEN 30 ELSE 31

\* datetime.date(): the calendar date of an instant
DateOf(t) == [year |-> t.year, month |-> t.month, day |-> t.day]

\* date1 > date2
DateAfter(a, b) ==
    \/ a.year > b.year
    \/ a.year = b.year /\ a.month > b.month
    \/ a.year = b.year /\ a.month = b.month /\ a.day > b.day

\* date + datetime.timedelta(days=1)
NextDay(dt) ==
    IF dt.day < DaysInMonth(dt.year, dt.month) THEN [dt EXCEPT !.day = dt.day + 1]
    ELSE IF dt.month < 12 THEN [dt EXCEPT !.day = 1, !.month = dt.month + 1]
    ELSE [dt EXCEPT !.day = 1, !.month = 1, !.year = dt.year + 1]

\* t + datetime.timedelta(hours=1)
PlusOneHour(t) ==
    IF t.hour < 23 THEN [t EXCEPT !.hour = t.hour + 1]
    ELSE LET n == NextDay(DateOf(t))
         IN  DateTime(n.year, n.month, n.day, 0, t.minute)

\* the datetime constructor's check: ValueError outside these ranges
ValidDateTime(y, mo, d, h, mi) ==
    /\ y \in 1..9999
    /\ mo \in 1..12
    /\ d \in 1..DaysInMonth(y, mo)
    /\ h \in 0..23
    /\ mi \in 0..59

MonthNames ==
    << "january", "february", "march", "april", "may", "june", "july",
       "august", "september", "october", "november", "december" >>

MonthAbbrs ==
    << "Jan", "Feb", "Mar", "Apr", "May", "Jun", "Jul", "Aug", "Sep", "Oct", "Nov", "Dec" >>

WeekdayAbbrs == { "Mon", "Tue", "Wed", "Thu", "Fri", "Sat", "Sun" }

\* strftime('%b %d, %Y')
FormatDate(t) == MonthAbbrs[t.month] \o " " \o Pad2(t.day) \o ", " \o Pad4(t.year)

\* strftime('%I:%M %p')
FormatTime(t) ==
    LET h12 == IF t.hour % 12 = 0 THEN 12 ELSE t.hour % 12
    IN  Pad2(h12) \o ":" \o Pad2(t.minute) \o (IF t.hour < 12 THEN " AM" ELSE " PM")

\* date.isoformat()
IsoDate(dt) == Pad4(dt.year) \o "-" \o Pad2(dt.month) \o "-" \o Pad2(dt.day)

\* datetime.isoformat() of a naive instant with zero seconds
IsoDateTime(t) == IsoDate(DateOf(t)) \o "T" \o Pad2(t.hour) \o ":" \o Pad2(t.minute) \o ":00"

-----------------------------------------------------------------------------
(* Matching a pattern from left to right: each step takes the position where
   the match stands (0: it has failed) and gives the position after the step. *)

\* one or more characters of cs, greedily
AfterRun(s, i, cs) == IF i # 0 /\ Char(s, i) \in cs THEN RunEnd(s, i, cs) + 1 ELSE 0

\* any number of characters of cs, greedily
AfterOptRun(s, i, cs) == IF i = 0 THEN 0 ELSE RunEnd(s, i, cs) + 1

\* the literal text lit
AfterLit(s, i, lit) == IF i # 0 /\ StartsAt(s, i, lit) THEN i + Len(lit) ELSE 0

\* the literal text lit, if it is there
AfterOptLit(s, i, lit) == IF i # 0 /\ StartsAt(s, i, lit) THEN i + Len(lit) ELSE i

\* one of the texts of the set lits, all of length n
AfterOneOf(s, i, lits, n) == IF \E lit \in lits : StartsAt(s, i, lit) THEN i + n ELSE 0

\* at least one and at most n characters of cs, greedily
AfterUpTo(s, i, cs, n) ==
    IF i # 0 /\ Char(s, i) \in cs THEN Min({RunEnd(s, i, cs), i + n - 1}) + 1 ELSE 0

\* s[i:j], 1-based, j not included
Between(s, i, j) == SubSeq(s, i, j - 1)

-----------------------------------------------------------------------------
(* TimeNormalizer: clean_date_string of get_detailed_event_info *)

\* The index of a lower-cased month name in MonthNames, 0 when it is none.
MonthIndex(low) ==
    IF \E i \in 1..12 : MonthNames[i] = low
    THEN CHOOSE i \in 1..12 : MonthNames[i] = low
    ELSE 0

MonthNumber(w) == MonthIndex(Lower(w))

\* %I with %p
Hour24(h, ap) ==
    IF ap = "A" THEN (IF h = 12 THEN 0 ELSE h) ELSE (IF h = 12 THEN 12 ELSE h + 12)

StrptimeValues(mo, d, y, h, mi, ap) ==
    IF mo # 0 /\ d \in 1..31 /\ h \in 1..12 /\ mi \in 0..59
       /\ ValidDateTime(y, mo, d, Hour24(h, ap), mi)
    THEN Some(DateTime(y, mo, d, Hour24(h, ap), mi))
    ELSE None

\* datetime.strptime(clean_str, "%B %d, %Y %I:%M %p") on the groups the pattern
\* captured (month word, day digits, year digits, hour digits, minute digits,
\* "A" or "P"); None is the ValueError the caller catches.
\* %d is 3[0-1]|[1-2]\d|0[1-9]|[1-9], %Y is \d\d\d\d, %I is 1[0-2]|0[1-9]|[1-9],
\* %M is [0-5]\d|\d, and each must take the whole run of digits.
Strptime(mon, day, year, hour, minute, ap) ==
    IF Len(day) \in {1, 2} /\ Len(year) = 4 /\ Len(hour) \in {1, 2} /\ Len(minute) \in {1, 2}
    THEN StrptimeValues(MonthNumber(mon), ToInt(day), ToInt(year), ToInt(hour),
                        ToInt(minute), ap)
    ELSE None

\* The pattern r'(\w+), (\w+ \d+, \d+),? at (\d+:\d+ [AP]M)' from the start of s:
\* the positions where its parts start (0: no match so far).
CanonMonth(s) == AfterLit(s, AfterRun(s, 1, WordChars), ", ")

CanonDay(s) == AfterLit(s, AfterRun(s, CanonMonth(s), WordChars), " ")

CanonYear(s) == AfterLit(s, AfterRun(s, CanonDay(s), DigitChars), ", ")

CanonYearEnd(s) == AfterRun(s, CanonYear(s), DigitChars)

CanonHour(s) == AfterLit(s, AfterOptLit(s, CanonYearEnd(s), ","), " at ")

CanonMinute(s) == AfterLit(s, AfterRun(s, CanonHour(s), DigitChars), ":")

CanonAmPm(s) == AfterLit(s, AfterRun(s, CanonMinute(s), DigitChars), " ")

CanonEnd(s) == AfterOneOf(s, CanonAmPm(s), {"AM", "PM"}, 2)

\* re.match(pattern, s) and strptime on its groups.  re.match anchors the
\* pattern at the start of s only.
MatchCanonical(s) ==
    IF CanonEnd(s) = 0 THEN None
    ELSE Strptime(Between(s, CanonMonth(s), CanonDay(s) - 1),
                  Between(s, CanonDay(s), CanonYear(s) - 2),
                  Between(s, CanonYear(s), CanonYearEnd(s)),
                  Between(s, CanonHour(s), CanonMinute(s) - 1),
                  Between(s, CanonMinute(s), CanonAmPm(s) - 1),
                  Char(s, CanonAmPm(s)))

clean_date_string(date_str) ==
    IF date_str = "" THEN None
    ELSE MatchCanonical(Replace(Strip(CollapseSpaces(date_str)), " Local Time", ""))

-----------------------------------------------------------------------------
(* The bonus phrase of a Spotlight event: get_detailed_event_info *)

\* (?:\*\*)?(?:\.|\s|$) matches at j
BonusStop(s, k) == k > Len(s) \/ Char(s, k) \in ({"."} \cup SpaceChars)

BonusTail(s, j) == (StartsAt(s, j, "**") /\ BonusStop(s, j + 2)) \/ BonusStop(s, j)

\* The lazy group (.*?) from r on: up to the first place where the tail matches.
LazyGroup(text, r) == Between(text, r, Min({ k \in r..(Len(text) + 1) : BonusTail(text, k) }))

\* group(1) of re.search(kw + r"\s*(?:\*\*)?(.*?)(?:\*\*)?(?:\.|\s|$)", text,
\* re.IGNORECASE) when kw is found at p (0: not found, no match).  The white
\* space and the opening ** are taken greedily.
KeywordGroup(text, p, n) ==
    IF p = 0 THEN None
    ELSE Some(LazyGroup(text, AfterOptLit(text, AfterOptRun(text, p + n, SpaceChars), "**")))

KeywordBonus(text, kw) == KeywordGroup(text, Find(Lower(text), kw), Len(kw))

ResourceWords == << "candy", "xp", "stardust", "dust" >>

\* (?:Candy|XP|Stardust|Dust) matched at k of the lower-cased text: the
\* position after it, 0 when none matches.
ResourceAt(low, k) ==
    IF \E i \in 1..4 : StartsAt(low, k, ResourceWords[i])
    THEN k + Len(ResourceWords[CHOOSE i \in 1..4 : StartsAt(low, k, ResourceWords[i])])
    ELSE 0

\* The position after the first resource word that starts at from or later.
ResourceAfter(low, from) ==
    IF from = 0 \/ \A k \in from..Len(low) : ResourceAt(low, k) = 0 THEN 0
    ELSE ResourceAt(low, Min({ k \in from..Len(low) : ResourceAt(low, k) # 0 }))

\* the position n characters after i
Skip(i, n) == IF i = 0 THEN 0 ELSE i + n

\* \d+[x].+?(?:Candy|XP|Stardust|Dust) matched at i: the position after it
MultiplierAt(low, i) ==
    ResourceAfter(low, Skip(AfterLit(low, AfterRun(low, i, DigitChars), "x"), 1))

FirstMultiplier(text, low, is) ==
    IF is = {} THEN None ELSE Some(Between(text, Min(is), MultiplierAt(low, Min(is))))

\* group(1) of re.search(r"(\d+[x].+?(?:Candy|XP|Stardust|Dust))", text,
\* re.IGNORECASE).  The multiplication sign of the source's character class
\* is outside the alphabet of the model.
MultiplierIn(text, low) ==
    FirstMultiplier(text, low,
        { i \in 1..Len(low) : MultiplierAt(low, i) # 0 })

MultiplierBonus(text) == MultiplierIn(text, Lower(text))

\* double\s+(.+?(?:...)) with "double" at i and the white space ending before c:
\* where the group starts.  \s+ takes all the white space and gives one
\* character back when the resource word follows the white space at once.
DoubleGroupStart(low, i, c) ==
    IF c = 0 THEN 0
    ELSE IF ResourceAfter(low, c + 1) # 0 THEN c
    ELSE IF c - 1 > i + 6 /\ ResourceAt(low, c) # 0 THEN c - 1
    ELSE 0

DoubleAt(low, i) ==
    DoubleGroupStart(low, i, AfterRun(low, AfterLit(low, i, "double"), SpaceChars))

DoubleGroup(text, low, g) == Some(Between(text, g, ResourceAfter(low, g + 1)))

FirstDouble(text, low, is) ==
    IF is = {} THEN None ELSE DoubleGroup(text, low, DoubleAt(low, Min(is)))

\* group(1) of re.search(r"double\s+(.+?(?:Candy|XP|Stardust|Dust))", text,
\* re.IGNORECASE)
DoubleIn(text, low) == FirstDouble(text, low, { i \in 1..Len(low) : DoubleAt(low, i) # 0 })

DoubleBonus(text) == DoubleIn(text, Lower(text))

\* group(1) of the first of the five fallback patterns that matches the text
PatternGroup(text) ==
    IF IsSome(KeywordBonus(text, "special bonus is")) THEN KeywordBonus(text, "special bonus is")
    ELSE IF IsSome(KeywordBonus(text, "bonus is")) THEN KeywordBonus(text, "bonus is")
    ELSE IF IsSome(KeywordBonus(text, "bonus:")) THEN KeywordBonus(text, "bonus:")
    ELSE IF IsSome(MultiplierBonus(text)) THEN MultiplierBonus(text)
    ELSE DoubleBonus(text)

StripSome(o) == IF IsSome(o) THEN Some(Strip(Get(o))) ELSE None

\* bonus_info = match.group(1).strip() of the first pattern that matches
PatternBonus(text) == StripSome(PatternGroup(text))

OrElse(o, other) == IF IsSome(o) THEN o ELSE other

RECURSIVE FallbackLoop(_, _)
\* The loop over all_paragraphs with the fallback patterns; info is bonus_info
\* so far.  A paragraph whose match is empty does not end the loop.
FallbackLoop(paragraphs, info) ==
    IF paragraphs = << >> \/ TruthyStr(info) THEN info
    ELSE FallbackLoop(Tail(paragraphs), OrElse(PatternBonus(Strip(Head(paragraphs))), info))

\* text[start_pos + len("special bonus is"):] without ** and stripped
AfterSpecialBonus(text, start_pos) ==
    Strip(Replace(Strip(SubSeq(text, start_pos + Len("special bonus is"), Len(text))), "**", ""))

PrimaryText(text) == AfterSpecialBonus(text, Find(Lower(text), "special bonus is"))

PrimaryHit(paragraphs, hit) ==
    IF hit = {} THEN None ELSE Some(PrimaryText(Strip(paragraphs[Min(hit)])))

\* The first loop: the first paragraph holding "special bonus is" gives
\* everything after it.
PrimaryBonus(paragraphs) ==
    PrimaryHit(paragraphs, { i \in 1..Len(paragraphs) :
                               Contains(Lower(Strip(paragraphs[i])), "special bonus is") })

\* bonus_info after both loops (None or "" means no bonus is recorded)
ExtractBonus(paragraphs) == FallbackLoop(paragraphs, PrimaryBonus(paragraphs))

-----------------------------------------------------------------------------
(* Extractor: the preliminary date of a listing node, scrape_leekduck_events *)

MonthAbbrSet == { MonthAbbrs[i] : i \in 1..12 }

MonthAbbrNumber(w) == CHOOSE i \in 1..12 : MonthAbbrs[i] = w

\* (Mon|...|Sun),\s+(Jan|...|Dec) matched at i: the position of the month, or 0
DateHintAt(s, i) ==
    AfterRun(s, AfterLit(s, AfterOneOf(s, i, WeekdayAbbrs, 3), ","), SpaceChars)

DateHintEnd(s, i) == AfterOneOf(s, DateHintAt(s, i), MonthAbbrSet, 3)

\* re.search(r'(Mon|...|Sun),\s+(Jan|...|Dec)', text)
HasDateHint(text) == \E i \in 1..Len(text) : DateHintEnd(text, i) # 0

FirstHint(strings, hit) == IF hit = {} THEN "" ELSE strings[Min(hit)]

\* The first of item.stripped_strings with a date hint, "" when there is none.
DateText(strings) == FirstHint(strings, { i \in 1..Len(strings) : HasDateHint(strings[i]) })

\* date_pattern matched at i: where the day starts and where it ends
DateDayAt(s, i) == AfterRun(s, DateHintEnd(s, i), SpaceChars)

DateDayEnd(s, i) == AfterUpTo(s, DateDayAt(s, i), DigitChars, 2)

\* the optional (?:,\s+\d{4}) after the day that ends before d: where the year starts
DateYearAt(s, d) ==
    IF AfterUpTo(s, AfterRun(s, AfterLit(s, d, ","), SpaceChars), DigitChars, 4)
       = AfterRun(s, AfterLit(s, d, ","), SpaceChars) + 4
    THEN AfterRun(s, AfterLit(s, d, ","), SpaceChars)
    ELSE 0

YearGroup(s, y) == IF y = 0 THEN None ELSE Some(SubSeq(s, y, y + 3))

DateGroups(s, m, d0, d1) ==
    [ month |-> SubSeq(s, m, m + 2), day |-> Between(s, d0, d1),
      year |-> YearGroup(s, DateYearAt(s, d1)) ]

DateMatchAt(s, i) == DateGroups(s, DateHintAt(s, i), DateDayAt(s, i), DateDayEnd(s, i))

FirstDate(s, hit) == IF hit = {} THEN None ELSE Some(DateMatchAt(s, Min(hit)))

\* re.search(date_pattern, date_text): the groups of the leftmost match
DateMatch(s) == FirstDate(s, { i \in 1..Len(s) : DateDayEnd(s, i) # 0 })

\* time_pattern (\d{1,2}:\d{2}\s*(?:AM|PM|am|pm)) matched at i: \d{1,2} takes two
\* digits when a ':' follows them, one otherwise.
TimeColonAt(s, i) ==
    IF Char(s, i) \notin DigitChars THEN 0
    ELSE IF Char(s, i + 1) \in DigitChars /\ StartsAt(s, i + 2, ":") THEN i + 2
    ELSE IF StartsAt(s, i + 1, ":") THEN i + 1
    ELSE 0

\* where AM or PM starts, given the position c of the ':'
TimeAmPmAt(s, c) ==
    IF c # 0 /\ Char(s, c + 1) \in DigitChars /\ Char(s, c + 2) \in DigitChars
    THEN AfterOptRun(s, c + 3, SpaceChars) ELSE 0

TimeEnd(s, i) == AfterOneOf(s, TimeAmPmAt(s, TimeColonAt(s, i)), {"AM", "PM", "am", "pm"}, 2)

TimeGroups(s, i, c, a) ==
    [ hour |-> Between(s, i, c), minute |-> SubSeq(s, c + 1, c + 2),
      ampm |-> Lower(SubSeq(s, a, a + 1)) ]

TimeMatchAt(s, i) == TimeGroups(s, i, TimeColonAt(s, i), TimeAmPmAt(s, TimeColonAt(s, i)))

FirstTime(s, hit) == IF hit = {} THEN None ELSE Some(TimeMatchAt(s, Min(hit)))

\* re.search(time_pattern, date_text): the groups of the leftmost match
TimeMatch(s) == FirstTime(s, { i \in 1..Len(s) : TimeEnd(s, i) # 0 })

\* The year dateutil takes from today's date when the text names none.
DefaultYear == 2026

\* the hour of a 12-hour clock as dateutil adjusts it
AdjustAmPm(h, ampm) ==
    IF ampm = "pm" /\ h < 12 THEN h + 12 ELSE IF ampm = "am" /\ h = 12 THEN 0 ELSE h

\* Stated for day tokens 1..31 (dateutil reads a larger one as a year).
DateutilValues(y, mo, d, h, mi, ampm) ==
    CASE d \in 1..31 ->
         IF h \in 0..12 /\ ValidDateTime(y, mo, d, AdjustAmPm(h, ampm), mi)
         THEN Some(DateTime(y, mo, d, AdjustAmPm(h, ampm), mi))
         ELSE None

\* dateutil's parser.parse(f"{date_str} {time_str}") on the two matches: the
\* weekday is ignored when a day is given, a missing year is this year, the
\* hour of a 12-hour clock must be 0..12; None is the exception the caller
\* catches.
DateutilParse(dm, tm) ==
    DateutilValues(IF IsSome(dm.year) THEN ToInt(Get(dm.year)) ELSE DefaultYear,
                   MonthAbbrNumber(dm.month), ToInt(dm.day),
                   ToInt(tm.hour), ToInt(tm.minute), tm.ampm)

ParseBoth(dm, tm) == IF IsSome(dm) /\ IsSome(tm) THEN DateutilParse(Get(dm), Get(tm)) ELSE None

\* parsed_datetime of the preliminary parsing of date_text, None when a pattern
\* does not match or the parser raises
PreliminaryTime(date_text) == ParseBoth(DateMatch(date_text), TimeMatch(date_text))

-----------------------------------------------------------------------------
(* Extractor: one record per listing node, scrape_leekduck_events *)

\* A listing node (an element of event_items) is what the loop reads of it:
\*   href         item['href'] when the element has the attribute
\*   title_elem   text of item.find(['h2','h3','h4','strong','span'], class_=...)
\*   bold_text    text of item.find(['b','strong'])
\*   img_alt      item.find('img').get('alt'),  img_src  its src
\*   text         item.get_text()
\*   strings      item.stripped_strings
\*   parent_class item.parent.get('class', [])

SiteOrigin == "https://leekduck.com"

\* "Make sure URL is absolute"
Absolute(url) == IF StartsAt(url, 1, "http") THEN url ELSE SiteOrigin \o url

CutAt(text, nl) == IF nl = 0 THEN text ELSE SubSeq(text, 1, nl - 1)

\* text.split('\n')[0]
FirstLine(text) == CutAt(text, Find(text, "\n"))

\* The title of a node.  A found element is used even when its text is empty
\* (a Tag is true whatever it holds); the alt text is used only when not empty.
NodeTitle(item) ==
    IF IsSome(item.title_elem) THEN Strip(Get(item.title_elem))
    ELSE IF IsSome(item.bold_text) THEN Strip(Get(item.bold_text))
    ELSE IF TruthyStr(item.img_alt) THEN Strip(Get(item.img_alt))
    ELSE FirstLine(Strip(item.text))

\* Classifier: the ordered keyword rules on the lower-cased title
TypeOfLower(title_lower) ==
    IF Contains(title_lower, "raid") \/ Contains(title_lower, "raids") THEN "Raid"
    ELSE IF Contains(title_lower, "community day") THEN "Community Day"
    ELSE IF Contains(title_lower, "spotlight") THEN "Spotlight"
    ELSE IF Contains(title_lower, "battle") \/ Contains(title_lower, "league") THEN "Battle"
    ELSE IF Contains(title_lower, "hatch") THEN "Hatch Day"
    ELSE IF Contains(title_lower, "mega") THEN "Mega"
    ELSE IF Contains(title_lower, "power up ticket") \/ Contains(title_lower, "ticket")
         THEN "Ticket"
    ELSE IF Contains(title_lower, "shadow") THEN "Shadow"
    ELSE "General"

EventType(title) == TypeOfLower(Lower(title))

ParentHint(cls) == IF Contains(cls, "raid") THEN Some("Raid") ELSE Some("Battle")

LastHint(parent_class, hit) ==
    IF hit = {} THEN None ELSE ParentHint(Lower(parent_class[Max(hit)]))

\* parent_type: the loop over the parent's classes keeps the last class that
\* holds 'raid' or 'battle'.
ParentType(parent_class) ==
    LastHint(parent_class,
             { i \in 1..Len(parent_class) :
                 \/ Contains(Lower(parent_class[i]), "raid")
                 \/ Contains(Lower(parent_class[i]), "battle") })

\* event_data = {} with the title: a key the dict does not hold is None here.
NewEvent(title, i) ==
    [ title |-> title, original_index |-> i, event_link |-> None,
      event_type |-> "General", date_text |-> None,
      start_time |-> None, end_time |-> None, is_multi_day |-> None,
      display_start |-> None, display_start_time |-> None,
      display_end_time |-> None, display_end |-> None,
      image_url |-> None, bonus |-> None, description |-> None,
      detailed_start_time |-> None, detailed_end_time |-> None ]

WithLink(ev, item) ==
    IF IsSome(item.href) THEN [ev EXCEPT !.event_link = Some(Absolute(Get(item.href)))] ELSE ev

\* Faulty variant of TypeWithHint: the parent's hint replaces any type
TypeFromHint(event_type, parent_type) ==
    IF IsSome(parent_type) THEN Get(parent_type) ELSE event_type

\* the parent's hint replaces General only
TypeWithHint(event_type, parent_type) ==
    IF IsSome(parent_type) /\ event_type = "General" THEN Get(parent_type) ELSE event_type

WithType(ev, item) ==
    [ev EXCEPT !.event_type = TypeWithHint(EventType(ev.title), ParentType(item.parent_class))]

\* The end of a preliminary record, one hour after its start
PreliminaryEnd(parsed_datetime) == PlusOneHour(parsed_datetime)

\* "For now, set start and end time the same since we'll update it later"
SetPreliminary(ev, parsed, end) ==
    [ev EXCEPT !.start_time = Some(parsed),
               !.end_time = Some(end),
               !.is_multi_day = Some(FALSE),
               !.display_start = Some(FormatDate(parsed)),
               !.display_start_time = Some(FormatTime(parsed)),
               !.display_end_time = Some(FormatTime(end))]

WithParsed(ev, parsed) ==
    IF IsSome(parsed) THEN SetPreliminary(ev, Get(parsed), PreliminaryEnd(Get(parsed))) ELSE ev

\* "Try to extract date information"
WithDateText(ev, date_text) ==
    IF date_text = "" THEN ev
    ELSE WithParsed([ev EXCEPT !.date_text = Some(date_text)], PreliminaryTime(date_text))

WithImage(ev, item) ==
    IF TruthyStr(item.img_src)
    THEN [ev EXCEPT !.image_url = Some(Absolute(Get(item.img_src)))] ELSE ev

\* The body of the loop for a node whose title is kept (i is enumerate's index).
BuildEvent(item, title, i) ==
    WithImage(WithDateText(WithType(WithLink(NewEvent(title, i), item), item),
                           DateText(item.strings)),
              item)

\* Faulty variant of Keep: the record is added whether it holds a link or not
KeepAll(out, ev) == Append(out, ev)

\* "Initial extraction is complete, add the event to our list"
Keep(out, ev) == IF IsSome(ev.event_link) THEN Append(out, ev) ELSE out

RECURSIVE ExtractLoop(_, _, _, _)

\* One node: skipped when its title is too short or was seen before
ExtractNode(items, i, processed, out, title) ==
    IF title = "" \/ Len(title) < 3 \/ title \in processed
    THEN ExtractLoop(items, i + 1, processed, out)
    ELSE ExtractLoop(items, i + 1, processed \cup {title},
                     Keep(out, BuildEvent(items[i], title, i - 1)))

\* "Process each event": items from position i on, with the titles seen so far
\* (processed_events) and the records kept so far.
ExtractLoop(items, i, processed, out) ==
    IF i > Len(items) THEN out
    ELSE ExtractNode(items, i, processed, out, NodeTitle(items[i]))

\* The preliminary records of a listing, in discovery order.
Extract(items) == ExtractLoop(items, 1, {}, << >>)

-----------------------------------------------------------------------------
(* The listing page and the discovery of its nodes *)

\* soup is the parsed listing page: its elements in document order, each with
\*   tag      the tag name
\*   class    the values of its class attribute, << >> when it has none
\*   parent   the position of the element that holds it, 0 for the body
\*   node     what the element itself holds (as for a node above; href is the
\*            element's own attribute)

RECURSIVE IsUnder(_, _, _)
\* element j is a descendant of element i
IsUnder(doc, j, i) ==
    IF doc[j].parent = 0 THEN FALSE
    ELSE doc[j].parent = i \/ IsUnder(doc, doc[j].parent, i)

\* The element and its descendants
Subtree(doc, i) == {i} \cup { j \in 1..Len(doc) : IsUnder(doc, j, i) }

\* find(...): the first element of a set, in document order, that holds a part
FirstHolding(doc, S, part) ==
    IF \E j \in S : IsSome(doc[j].node[part])
    THEN Min({ j \in S : IsSome(doc[j].node[part]) })
    ELSE 0

PartOf(doc, j, part) == IF j = 0 THEN None ELSE doc[j].node[part]

RECURSIVE StringsFrom(_, _, _)
\* stripped_strings: the strings of the elements of a set, in document order
StringsFrom(doc, S, j) ==
    IF j > Len(doc) THEN << >>
    ELSE IF j \in S THEN doc[j].node.strings \o StringsFrom(doc, S, j + 1)
    ELSE StringsFrom(doc, S, j + 1)

RECURSIVE TextFrom(_, _, _)
\* get_text(): the texts of the elements of a set, one element on a line
TextFrom(doc, S, j) ==
    IF j > Len(doc) THEN ""
    ELSE IF j \in S /\ doc[j].node.text # ""
         THEN doc[j].node.text \o "\n" \o TextFrom(doc, S, j + 1)
    ELSE TextFrom(doc, S, j + 1)

\* item.parent.get('class', [])
ParentClass(doc, i) == IF doc[i].parent = 0 THEN << >> ELSE doc[doc[i].parent].class

\* What the loop reads of the element at i, from it and from what it holds
ItemAt(doc, i, S) ==
    [ title_elem |-> PartOf(doc, FirstHolding(doc, S, "title_elem"), "title_elem"),
      bold_text |-> PartOf(doc, FirstHolding(doc, S, "bold_text"), "bold_text"),
      img_alt |-> PartOf(doc, FirstHolding(doc, S, "img_src"), "img_alt"),
      img_src |-> PartOf(doc, FirstHolding(doc, S, "img_src"), "img_src"),
      href |-> doc[i].node.href,
      strings |-> StringsFrom(doc, S, 1),
      parent_class |-> ParentClass(doc, i),
      text |-> TextFrom(doc, S, 1) ]

ItemOf(doc, i) == ItemAt(doc, i, Subtree(doc, i))

\* class_=lambda c: c and (word in c.lower() or ...), called for each value of
\* the attribute
ClassHas(cls, words) ==
    \E k \in 1..Len(cls) : \E w \in words : Contains(Lower(cls[k]), w)

RECURSIVE Matching(_, _, _)
\* find_all: the positions from j on that a test holds for, in document order
Matching(doc, Test(_, _), j) ==
    IF j > Len(doc) THEN << >>
    ELSE IF Test(doc, j) THEN << j >> \o Matching(doc, Test, j + 1)
    ELSE Matching(doc, Test, j + 1)

\* soup.find_all('div', class_=... 'event' ... 'raids')
IsSection(doc, j) == doc[j].tag = "div" /\ ClassHas(doc[j].class, { "event", "raids" })

\* section.find_all('a', href=True)
IsLink(doc, j) == doc[j].tag = "a" /\ IsSome(doc[j].node.href)

RECURSIVE LinksUnder(_, _, _)
LinksUnder(doc, section, j) ==
    IF j > Len(doc) THEN << >>
    ELSE IF IsLink(doc, j) /\ IsUnder(doc, j, section)
         THEN << j >> \o LinksUnder(doc, section, j + 1)
    ELSE LinksUnder(doc, section, j + 1)

RECURSIVE ExtendAll(_, _, _)
\* for section in event_sections: event_items.extend(items)
ExtendAll(doc, event_sections, k) ==
    IF k > Len(event_sections) THEN << >>
    ELSE LinksUnder(doc, event_sections[k], 1) \o ExtendAll(doc, event_sections, k + 1)

\* "Try to find event sections first"
SectionSearch(doc) == ExtendAll(doc, Matching(doc, IsSection, 1), 1)

\* soup.find_all('a', href=lambda h: h and '/events/' in h)
IsEventLink(doc, j) ==
    doc[j].tag = "a" /\ TruthyStr(doc[j].node.href)
                     /\ Contains(Get(doc[j].node.href), "/events/")

LinkSearch(doc) == Matching(doc, IsEventLink, 1)

\* soup.find_all(['div', 'a'], class_=... 'item' ... 'event' ... 'raid')
IsBroadHit(doc, j) ==
    doc[j].tag \in { "div", "a" } /\ ClassHas(doc[j].class, { "item", "event", "raid" })

BroadSearch(doc) == Matching(doc, IsBroadHit, 1)

\* Faulty variant of OrIfNone: the next search adds to what was found
OrAlso(found, next) == found \o next

\* "if not event_items": the next search is used only when nothing was found
OrIfNone(found, next) == IF found = << >> THEN next ELSE found

\* Lines 302-325: the positions of the event items of a page
FindEventItems(doc) ==
    OrIfNone(OrIfNone(SectionSearch(doc), LinkSearch(doc)), BroadSearch(doc))

\* The event items of a page, as the loop reads them
ItemsOf(doc, positions) == [ k \in 1..Len(positions) |-> ItemOf(doc, positions[k]) ]

-----------------------------------------------------------------------------
(* DetailEnricher: get_detailed_event_info *)

\* A detail page is what the function reads of the response:
\*   status_code
\*   start_text   text of start_label.find_next(), None when the label or the
\*                element after it is missing;  end_text likewise
\*   paragraphs   the texts of soup.find_all('p')
\*   description  text of the div of class event-description, None when missing

\* Where a call into the libraries may raise inside the function's try block.
RaisePoints == { "none", "get", "soup", "bonus", "start", "end", "description" }

\* The replacement of the times by the two detailed times
SetDetailed(ev, st, en, multi) ==
    [ev EXCEPT !.start_time = Some(st),
               !.end_time = Some(en),
               !.is_multi_day = Some(multi),
               !.display_start = Some(FormatDate(st)),
               !.display_end = IF multi THEN Some(FormatDate(en)) ELSE None,
               !.display_start_time = Some(FormatTime(st)),
               !.display_end_time = Some(FormatTime(en))]

ReplaceTimes(ev, st, en) == SetDetailed(ev, st, en, DateAfter(DateOf(en), DateOf(st)))

\* Faulty variant of UseDetailedTimes: a detailed start replaces the start on
\* its own
UseAnyDetailedTime(ev) ==
    IF IsSome(ev.detailed_start_time)
    THEN [ev EXCEPT !.start_time = ev.detailed_start_time]
    ELSE ev

\* "If we found both detailed times, use them instead of the main page times"
UseDetailedTimes(ev) ==
    IF IsSome(ev.detailed_start_time) /\ IsSome(ev.detailed_end_time)
    THEN ReplaceTimes(ev, Get(ev.detailed_start_time), Get(ev.detailed_end_time))
    ELSE ev

SetBonus(ev, bonus_info) ==
    IF TruthyStr(bonus_info) THEN [ev EXCEPT !.bonus = bonus_info] ELSE ev

\* event_data after the bonus block (run for Spotlight records only)
WithBonus(ev, page) ==
    IF ev.event_type = "Spotlight" THEN SetBonus(ev, ExtractBonus(page.paragraphs)) ELSE ev

\* clean_date_string(label.find_next().get_text().strip()), None without the label
ParsedText(text) == IF IsSome(text) THEN clean_date_string(Strip(Get(text))) ELSE None

\* Faulty variant of SetDetailedStart: the parsed start is written to start_time
SetStartTime(ev, parsed_start) ==
    IF IsSome(parsed_start) THEN [ev EXCEPT !.start_time = parsed_start] ELSE ev

SetDetailedStart(ev, parsed_start) ==
    IF IsSome(parsed_start) THEN [ev EXCEPT !.detailed_start_time = parsed_start] ELSE ev

SetDetailedEnd(ev, parsed_end) ==
    IF IsSome(parsed_end) THEN [ev EXCEPT !.detailed_end_time = parsed_end] ELSE ev

WithDetailedStart(ev, page) == SetDetailedStart(ev, ParsedText(page.start_text))

WithDetailedEnd(ev, page) == SetDetailedEnd(ev, ParsedText(page.end_text))

\* Faulty variant of WithDescription: the text is added to the description
\* the record holds
AddDescription(ev, page) ==
    IF IsSome(page.description)
    THEN [ev EXCEPT !.description =
                        Some((IF IsSome(ev.description) THEN Get(ev.description) ELSE "")
                             \o Strip(Get(page.description)))]
    ELSE ev

\* "Try to extract a better description if available"
WithDescription(ev, page) ==
    IF IsSome(page.description)
    THEN [ev EXCEPT !.description = Some(Strip(Get(page.description)))] ELSE ev

\* The point where the call really raises: a block that is not run cannot.
RaisedAt(event_data, page, raise) ==
    IF raise = "get" THEN "get"
    ELSE IF page.status_code # 200 THEN "none"
    ELSE IF raise = "bonus" /\ event_data.event_type # "Spotlight" THEN "none"
    ELSE IF raise = "start" /\ ~IsSome(page.start_text) THEN "none"
    ELSE IF raise = "end" /\ ~IsSome(page.end_text) THEN "none"
    ELSE raise

\* The function from a point on; ev is event_data as changed so far.  The
\* except clause prints and falls through to return event_data, so what was
\* written before an exception stays.
FromDescription(ev, page, raise) ==
    IF raise = "description" THEN ev ELSE WithDescription(ev, page)

FromEnd(ev, page, raise) ==
    IF raise = "end" THEN ev
    ELSE FromDescription(UseDetailedTimes(WithDetailedEnd(ev, page)), page, raise)

FromStart(ev, page, raise) ==
    IF raise = "start" THEN ev ELSE FromEnd(WithDetailedStart(ev, page), page, raise)

FromBonus(ev, page, raise) ==
    IF raise = "bonus" THEN ev ELSE FromStart(WithBonus(ev, page), page, raise)

FromResponse(ev, page, raise) ==
    IF raise = "get" \/ page.status_code # 200 \/ raise = "soup" THEN ev
    ELSE FromBonus(ev, page, raise)

\* The dict the function returns (the one it was given, changed in place) for a
\* response and the point where a library call raises ("none": nowhere).
get_detailed_event_info(event_data, page, raise) ==
    FromResponse(event_data, page, RaisedAt(event_data, page, raise))

-----------------------------------------------------------------------------
(* Matcher: is_same_event_type, is_similar_title, extract_pokemon_name *)

event_patterns ==
    << "community day", "spotlight hour", "raid day", "hatch day", "battle day",
       "max battle", "go fest" >>

\* Faulty variant of SameTypeLower: equal titles are not excluded
SameTypeOrEqual(title1, title2) ==
    \E i \in 1..Len(event_patterns) :
        Contains(title1, event_patterns[i]) /\ Contains(title2, event_patterns[i])

\* the loop over event_patterns, on the lower-cased titles
SameTypeLower(title1, title2) ==
    \E i \in 1..Len(event_patterns) :
        /\ Contains(title1, event_patterns[i])
        /\ Contains(title2, event_patterns[i])
        /\ title1 # title2

is_same_event_type(title1, title2) == SameTypeLower(Lower(title1), Lower(title2))

common_words == { "featured", "event", "special", "bonus", "update", "the", "a", "an", "in", "on" }

RECURSIVE WordEnd(_, _)
\* the position after the word that holds s[i]
WordEnd(s, i) ==
    IF i > Len(s) \/ Char(s, i) \in SpaceChars THEN i ELSE WordEnd(s, i + 1)

\* set(s.split()): the words of s
Words(s) ==
    { Between(s, i, WordEnd(s, i)) :
        i \in { k \in 1..Len(s) :
                  Char(s, k) \notin SpaceChars /\ (k = 1 \/ Char(s, k - 1) \in SpaceChars) } }

\* the words of a lower-cased title that are not common words
SignificantWords(title) == Words(title) \ common_words

\* "at least 2 significant words and 50% of the smaller title"
EnoughOverlap(n, min_words) == n >= 2 /\ 2 * n >= min_words

WordsSimilar(words1, words2) ==
    EnoughOverlap(Cardinality(words1 \cap words2),
                  Min({Cardinality(words1), Cardinality(words2)}))

\* config.get("pokemon_list", [...]): the default list
pokemon_list ==
    << "pikachu", "eevee", "charmander", "bulbasaur", "squirtle",
       "machop", "abra", "gastly", "magikarp", "dratini", "chikorita",
       "cyndaquil", "totodile", "mareep", "larvitar", "treecko",
       "torchic", "mudkip", "ralts", "slakoth", "bagon", "beldum",
       "turtwig", "chimchar", "piplup", "gible", "snivy", "tepig",
       "oshawott", "axew", "chespin", "fennekin", "froakie", "fletchling",
       "rowlet", "litten", "popplio", "grookey", "scorbunny", "sobble",
       "pikipek", "rookidee", "pawmi", "sandygast", "poochyena", "golett",
       "tapu fini", "tapu bulu", "suicune", "houndoom", "gyarados",
       "altaria", "regirock", "regigigas", "uxie", "mesprit", "azelf",
       "gastly", "sableye", "machamp" >>

FirstListed(hit) == IF hit = {} THEN None ELSE Some(pokemon_list[Min(hit)])

\* the first name of the list that the lower-cased title holds
NameIn(title_lower) ==
    FirstListed({ i \in 1..Len(pokemon_list) : Contains(title_lower, pokemon_list[i]) })

extract_pokemon_name(title) == NameIn(Lower(title))

SamePokemon(pokemon_name1, pokemon_name2) ==
    IsSome(pokemon_name1) /\ IsSome(pokemon_name2) /\ pokemon_name1 = pokemon_name2

SimilarLower(title1, title2) ==
    \/ WordsSimilar(SignificantWords(title1), SignificantWords(title2))
    \/ SamePokemon(extract_pokemon_name(title1), extract_pokemon_name(title2))

is_similar_title(title1, title2) == SimilarLower(Lower(title1), Lower(title2))

-----------------------------------------------------------------------------
(* Matcher: the loop over the existing entries, create_calendar_events_direct *)

\* A calendar entry is what the run reads or writes of an event resource:
\*   id, summary, start and end, each with its dateTime or its date (ISO text)

AllDay(date) == [ dateTime |-> None, date |-> Some(date) ]

Timed(dateTime) == [ dateTime |-> Some(dateTime), date |-> None ]

\* datetime.fromisoformat(text).date() and strptime(text, '%Y-%m-%d').date(), of
\* a text that starts with a well-formed YYYY-MM-DD
IsoDateOf(text) ==
    [ year |-> ToInt(SubSeq(text, 1, 4)), month |-> ToInt(SubSeq(text, 6, 7)),
      day |-> ToInt(SubSeq(text, 9, 10)) ]

\* existing_date: the date of an entry's start, None when it holds neither form
ExistingDate(existing) ==
    IF TruthyStr(existing.start.dateTime) THEN Some(IsoDateOf(Get(existing.start.dateTime)))
    ELSE IF TruthyStr(existing.start.date) THEN Some(IsoDateOf(Get(existing.start.date)))
    ELSE None

\* existing_date == event_start_date
SameDate(existing, event) == ExistingDate(existing) = Some(DateOf(Get(event.start_time)))

\* "Case 1: Exact duplicate - same title and time"
IsExactDuplicate(existing, event) ==
    existing.summary = event.title /\ SameDate(existing, event)

\* Faulty variant of IsLikelyUpdate: the date of the entry is not compared
IsLikelyUpdateAnyDate(existing, event) ==
    \/ is_same_event_type(existing.summary, event.title)
    \/ is_similar_title(existing.summary, event.title)

\* "Case 2: Same event on same date but with updated details"
IsLikelyUpdate(existing, event) ==
    /\ SameDate(existing, event)
    /\ \/ is_same_event_type(existing.summary, event.title)
       \/ is_similar_title(existing.summary, event.title)

\* The flags of the loop before its first entry
NoMatch ==
    [ event_exists |-> FALSE, update_existing |-> FALSE,
      existing_event_id |-> None, existing_event_title |-> None ]

RECURSIVE MatchLoop(_, _, _)
\* for existing in existing_events, from entry k on: the flags at the break or
\* at the end of the list
MatchLoop(existing_events, k, event) ==
    IF k > Len(existing_events) THEN NoMatch
    ELSE IF ~IsSome(ExistingDate(existing_events[k]))
         THEN MatchLoop(existing_events, k + 1, event)
    ELSE IF IsExactDuplicate(existing_events[k], event)
         THEN [NoMatch EXCEPT !.event_exists = TRUE]
    ELSE IF IsLikelyUpdate(existing_events[k], event)
         THEN [NoMatch EXCEPT !.update_existing = TRUE,
                              !.existing_event_id = Some(existing_events[k].id),
                              !.existing_event_title = Some(existing_events[k].summary)]
    ELSE MatchLoop(existing_events, k + 1, event)

\* What the run does with a record, from the flags of its loop
Classify(flags) ==
    IF flags.event_exists THEN "skip"
    ELSE IF flags.update_existing /\ TruthyStr(flags.existing_event_id) THEN "update"
    ELSE "new"

\* Faulty variant of AfterDelete: the continue after a failed delete is missing
AfterDeleteAlways(ok) == "insert"

\* Where the run goes after the delete request of an update: on to the insert,
\* or (continue) to the next record
AfterDelete(ok) == IF ok THEN "insert" ELSE "match"

\* Faulty variant of AfterInsert: a failed insert ends the run
AfterInsertAbort(ok) == IF ok THEN "match" ELSE "closed"

\* Where the run goes after the insert request: the except clause only notes
\* the record as skipped, so either way the loop goes on to the next record
AfterInsert(ok) == "match"

-----------------------------------------------------------------------------
(* The entry the run inserts for a record, create_calendar_events_direct *)

MinuteOfDay(t) == 60 * t.hour + t.minute

\* (end - start).seconds, in minutes: the part of the difference under a day
DeltaMinutes(st, en) == (MinuteOfDay(en) - MinuteOfDay(st)) % 1440

\* event.get('is_multi_day', False)
IsMultiDay(event) == IsSome(event.is_multi_day) /\ Get(event.is_multi_day)

AllDayRule(multi, st, en) ==
    \/ multi /\ st.hour < 2 /\ en.hour > 21
    \/ ~multi /\ st.hour < 10 /\ en.hour > 18 /\ 60 * DeltaMinutes(st, en) > 7 * 3600

is_all_day(event) ==
    AllDayRule(IsMultiDay(event), Get(event.start_time), Get(event.end_time))

\* "Modify the title for Spotlight events to include the bonus"
event_title(event) ==
    IF event.event_type = "Spotlight" /\ TruthyStr(event.bonus)
    THEN event.title \o " (" \o Get(event.bonus) \o ")"
    ELSE event.title

EventStart(event) ==
    IF is_all_day(event) THEN AllDay(IsoDate(DateOf(Get(event.start_time))))
    ELSE Timed(IsoDateTime(Get(event.start_time)))

EventEnd(event) ==
    IF is_all_day(event) THEN AllDay(IsoDate(NextDay(DateOf(Get(event.end_time)))))
    ELSE Timed(IsoDateTime(Get(event.end_time)))

\* calendar_event, with the id the service gives it
calendar_event(event, id) ==
    [ id |-> id, summary |-> event_title(event),
      start |-> EventStart(event), end |-> EventEnd(event) ]

-----------------------------------------------------------------------------
(* The site: listing nodes and the detail pages behind their links *)

Node(title_elem, bold_text, img_alt, href, strings, parent_class) ==
    [ title_elem |-> title_elem, bold_text |-> bold_text, img_alt |-> img_alt,
      img_src |-> IF IsSome(img_alt) THEN Some("/assets/img/events/banner.jpg") ELSE None,
      href |-> href, strings |-> strings, parent_class |-> parent_class,
      text |-> IF strings = << >> THEN "" ELSE strings[1] ]

NodeCommunityDay ==
    Node(Some("Community Day: Eevee"), None, Some("Eevee"), Some("/events/cd-eevee/"),
         << "Community Day: Eevee", "Sat, Mar 14, 2026 2:00 PM" >>, << "events-list" >>)

NodeRaidWeekend ==
    Node(Some(" Shadow Raid Weekend "), None, None, Some("https://leekduck.com/events/shadow-raids/"),
         << "Shadow Raid Weekend" >>, << "events-list" >>)

NodeSpotlight ==
    Node(None, Some("Pikachu Spotlight Hour"), None, Some("/events/spotlight-pikachu/"),
         << "Pikachu Spotlight Hour", "Starts Tue, Mar 17 11:30 PM" >>, << >>)

NodeMaxMonday ==
    Node(None, None, Some("Max Monday"), Some("/events/max-monday/"),
         << "Mon, Mar 16" >>, << "current-events", "battle-items" >>)

NodeHatchDay ==
    Node(None, None, None, Some("/events/hatch-day/"),
         << "Togepi Hatch Day", "Sun, Mar 22, 2026  9:00am - 12:00pm" >>, << >>)

NodeNoLink ==
    Node(Some("GO Fest 2026"), None, None, None, << "GO Fest 2026" >>, << "event-header" >>)

Nodes == { NodeCommunityDay, NodeRaidWeekend, NodeSpotlight, NodeMaxMonday,
           NodeHatchDay, NodeNoLink }

\* An element of the listing page
Element(tag, class, parent, node) ==
    [ tag |-> tag, class |-> class, parent |-> parent, node |-> node ]

\* An element that holds no text, image or link of its own
EmptyNode == Node(None, None, None, None, << >>, << >>)

\* The class of the site's event items
ItemClass == << "event-item-link" >>

RECURSIVE Listed(_, _)
\* The nodes from k on, each in a wrapper of its parent's class
Listed(nodes, k) ==
    IF k > Len(nodes) THEN << >>
    ELSE << Element("div", nodes[k].parent_class, 1, EmptyNode),
            Element(IF IsSome(nodes[k].href) THEN "a" ELSE "div", ItemClass, 2 * k, nodes[k]) >>
         \o Listed(nodes, k + 1)

\* The listing page of the site for a sequence of nodes: the div of class
\* events-list that holds them
Listing(nodes) == << Element("div", << "events-list" >>, 0, EmptyNode) >> \o Listed(nodes, 1)

Page(start_text, end_text, paragraphs, description) ==
    [ status_code |-> 200, start_text |-> start_text, end_text |-> end_text,
      paragraphs |-> paragraphs, description |-> description ]

NotFound ==
    [ status_code |-> 404, start_text |-> None, end_text |-> None,
      paragraphs |-> << >>, description |-> None ]

\* Texts of a time as a detail page may show them, each with the instant it
\* denotes when it has the canonical shape and None when it has not
DateTexts ==
    << [ text |-> "Saturday, March 14, 2026 at 2:30 PM",
         instant |-> Some(DateTime(2026, 3, 14, 14, 30)) ],
       [ text |-> "Saturday, March 14, 2026, at 2:30 PM",
         instant |-> Some(DateTime(2026, 3, 14, 14, 30)) ],
       [ text |-> "Saturday, March 14, 2026 at 2:30 PM Local Time",
         instant |-> Some(DateTime(2026, 3, 14, 14, 30)) ],
       [ text |-> "Sunday, March 15, 2026, at 12:00 AM Local Time",
         instant |-> Some(DateTime(2026, 3, 15, 0, 0)) ],
       [ text |-> "Thursday, December 31, 2026 at 12:05 PM",
         instant |-> Some(DateTime(2026, 12, 31, 12, 5)) ],
       [ text |-> "Tuesday, March 3, 2026 at 11:59 PM",
         instant |-> Some(DateTime(2026, 3, 3, 23, 59)) ],
       [ text |-> "Saturday March 14, 2026 at 2:30 PM", instant |-> None ],
       [ text |-> "Saturday, March 14 2026 at 2:30 PM", instant |-> None ],
       [ text |-> "Saturday, March 14, 2026 at 14:30", instant |-> None ],
       [ text |-> "Saturday, March 14 at 2:30 PM", instant |-> None ],
       [ text |-> "Saturday, March 14, 2026 at 2:30 PM EDT", instant |-> None ],
       [ text |-> "Saturday, March 14, 2026 at 2:30 PM until further notice",
         instant |-> None ],
       [ text |-> "March 14, 2026 at 2:30 PM", instant |-> None ],
       [ text |-> "Saturday, March 14, 2026 2:30 PM", instant |-> None ],
       [ text |-> "Saturday, March 14, 2026 at 2:30 pm", instant |-> None ],
       [ text |-> "Starts Saturday, March 14, 2026 at 2:30 PM", instant |-> None ],
       [ text |-> "TBA", instant |-> None ] >>

\* The link of the detail page that shows the k-th text as its start
DateLink(k) == "/events/starts-" \o Pad2(k) \o "/"

DateUrls == { SiteOrigin \o DateLink(k) : k \in 1..Len(DateTexts) }

\* The text the page of a URL of DateUrls shows
DateTextAt(event_url) ==
    DateTexts[CHOOSE k \in 1..Len(DateTexts) : event_url = SiteOrigin \o DateLink(k)]

\* The response of requests.get(event_url): the site's page, 404 for any other URL.
SitePage(event_url) ==
    CASE event_url = "https://leekduck.com/events/cd-eevee/" ->
             Page(Some("Saturday, March 14, 2026, at 2:00 PM Local Time"),
                  Some("Saturday, March 14, 2026, at 5:00 PM Local Time"),
                  << "Eevee will appear more frequently in the wild." >>,
                  Some(" Evolve Eevee to get a featured attack. "))
      [] event_url = "https://leekduck.com/events/shadow-raids/" ->
             Page(Some("Saturday,  March 14, 2026, at  12:00 AM Local Time"),
                  Some("Sunday, March 15, 2026, at 11:59 PM Local Time"),
                  << >>, None)
      [] event_url = "https://leekduck.com/events/spotlight-pikachu/" ->
             Page(Some("Tuesday, March 17, 2026, at 6:00 PM Local Time"),
                  Some("TBA"),
                  << "Pikachu is in the spotlight.",
                     "The special bonus is **2x Catch Stardust**" >>,
                  None)
      [] event_url = "https://leekduck.com/events/max-monday/" ->
             Page(Some("Monday, March 16, 2026, at 6:00 PM Local Time"), None, << >>, None)
      [] event_url = "https://leekduck.com/events/hatch-day/" ->
             Page(None, Some("Sunday, March 22, 2026, at 5:00 PM Local Time"),
                  << >>, Some("Togepi hatches from 2 km Eggs."))
      [] event_url \in DateUrls ->
             Page(Some(DateTextAt(event_url).text), None, << >>, None)
      [] OTHER -> NotFound

-----------------------------------------------------------------------------
(* The calendar the service holds before the run *)

Entry(id, summary, start) == [ id |-> id, summary |-> summary, start |-> start, end |-> start ]

\* The entries of the store, in the order events().list(orderBy='startTime')
\* gives them: an all-day entry before a timed entry of its date.
StoreEntries ==
    << Entry("e1", "Eevee Community Day", AllDay("2026-03-14")),
       Entry("e2", "Community Day: Eevee", Timed("2026-03-14T14:00:00-04:00")),
       Entry("e3", "Eevee Community Day", AllDay("2026-03-15")) >>

RECURSIVE SubLists(_)
\* The lists that keep some of the elements of q, in the order of q
SubLists(q) ==
    IF q = << >> THEN { << >> }
    ELSE SubLists(Tail(q)) \cup { << Head(q) >> \o r : r \in SubLists(Tail(q)) }

-----------------------------------------------------------------------------
(* State *)

VARIABLES
    pc,               \* where the main thread is
    soup,             \* the parsed listing page
    event_items,      \* the positions of the nodes found on the page, in discovery order
    objs,             \* the event_data dicts, by identity (the order of creation)
    events,           \* the events list: identities of dicts
    futures,          \* the futures of the executor, in the order of submission
    work_queue,       \* the executor's queue of futures no worker has taken yet
    merged,           \* the futures the as_completed loop has handled
    preliminary,      \* history: the records as the extraction loop left them
    var_checkboxes,   \* the cards of the window: frame_data and the checkbox value
    filter_vars,      \* event type -> value of its filter checkbox
    select_all_var,   \* value of the Select All checkbox
    calendar,         \* the entries the calendar service holds
    existing_events,  \* the list get_existing_events returned
    selected_events,  \* the argument of create_calendar_events_direct (identities)
    pos,              \* the position of its loop in selected_events
    flags,            \* the flags the matching loop left for the record at pos
    created_events,
    updated_events,
    skipped_events,
    log               \* dialogs shown and requests sent to the service, in order

scrapeVars == << soup, event_items, objs, events, futures, work_queue, merged, preliminary >>

windowVars == << var_checkboxes, filter_vars, select_all_var >>

runVars ==
    << calendar, existing_events, selected_events, pos, flags,
       created_events, updated_events, skipped_events, log >>

vars == << pc, scrapeVars, windowVars, runVars >>

\* The longest listing
MaxItems == 2

\* The listing of SpecPool
PoolSize == 7

\* ThreadPoolExecutor(max_workers=5)
max_workers == 5

\* How often the user submits an empty selection
MaxWarnings == 1

RECURSIVE SeqsUpTo(_, _)
\* The sequences of at most n elements of S
SeqsUpTo(S, n) ==
    IF n = 0 THEN { << >> }
    ELSE LET shorter == SeqsUpTo(S, n - 1)
         IN  shorter \cup { Append(q, x) : q \in { r \in shorter : Len(r) = n - 1 }, x \in S }

\* Before the window is built and before the run
InitWindow ==
    /\ var_checkboxes = << >>
    /\ filter_vars = << >>
    /\ select_all_var = TRUE

InitRun ==
    /\ existing_events = << >>
    /\ selected_events = << >>
    /\ pos = 0
    /\ flags = NoMatch
    /\ created_events = << >>
    /\ updated_events = << >>
    /\ skipped_events = << >>
    /\ log = << >>

InitPoolVars ==
    /\ preliminary = << >>
    /\ objs = << >>
    /\ events = << >>
    /\ futures = << >>
    /\ work_queue = << >>
    /\ merged = {}

\* The listing pages of the site
Listings == { Listing(nodes) : nodes \in SeqsUpTo(Nodes, MaxItems) }

InitScrape ==
    /\ pc = "start"
    /\ soup \in Listings
    /\ event_items = << >>
    /\ InitPoolVars
    /\ InitWindow
    /\ calendar = << >>
    /\ InitRun

-----------------------------------------------------------------------------
(* scrape_leekduck_events *)

Running == { f \in 1..Len(futures) : futures[f].state = "running" }

Finished == { f \in 1..Len(futures) : futures[f].state = "finished" }

\* Lines 302-325: "Find all event items"
FindItems ==
    /\ pc = "start"
    /\ event_items' = FindEventItems(soup)
    /\ pc' = "found"
    /\ UNCHANGED << soup, preliminary, objs, events, futures, work_queue, merged,
                    windowVars, runVars >>

\* Lines 327-466: the preliminary records are built.
ExtractEvents ==
    /\ pc = "found"
    /\ objs' = Extract(ItemsOf(soup, event_items))
    /\ preliminary' = objs'
    /\ events' = [ i \in 1..Len(objs') |-> i ]
    /\ pc' = "pool"
    /\ UNCHANGED << soup, event_items, futures, work_queue, merged, windowVars, runVars >>

\* Faulty variant of TaskArg: every task is given the first record
FirstArg(i) == events[1]

\* The dict a task is given: executor.submit(get_detailed_event_info, ..., event)
TaskArg(i) == events[i]

\* future_to_event[executor.submit(...)] = i, for the next event of the list
\* that holds an event_link
SubmitTask ==
    /\ pc = "pool"
    /\ Len(futures) < Len(events)
    /\ LET i == Len(futures) + 1
           event == objs[events[i]]
       IN  /\ IsSome(event.event_link)
           /\ futures' = Append(futures,
                  [ event_idx |-> i, arg |-> TaskArg(i), url |-> Get(event.event_link),
                    state |-> "pending", raised |-> FALSE ])
           /\ work_queue' = Append(work_queue, i)
    /\ UNCHANGED << pc, soup, event_items, preliminary, objs, events, merged, windowVars, runVars >>

\* Faulty variant of WorkerFree: a thread for every task
WorkerAlwaysFree == TRUE

\* Whether a worker thread is free to take a task
WorkerFree == Cardinality(Running) < max_workers

\* A worker thread takes the oldest queued task and sends its request.
StartTask ==
    /\ work_queue # << >>
    /\ WorkerFree
    /\ futures' = [futures EXCEPT ![Head(work_queue)].state = "running"]
    /\ work_queue' = Tail(work_queue)
    /\ UNCHANGED << pc, soup, event_items, preliminary, objs, events, merged, windowVars, runVars >>

\* The response arrives and the rest of get_detailed_event_info runs on the
\* worker; the dict is changed in place and is the future's result.
FinishTask(f, raise) ==
    /\ futures[f].state = "running"
    /\ LET a == futures[f].arg
           page == SitePage(futures[f].url)
       IN  /\ objs' = [objs EXCEPT ![a] = get_detailed_event_info(objs[a], page, raise)]
           /\ futures' = [futures EXCEPT ![f].state = "finished",
                                         ![f].raised = RaisedAt(objs[a], page, raise) # "none"]
    /\ UNCHANGED << pc, soup, event_items, preliminary, events, work_queue, merged, windowVars, runVars >>

\* Faulty variant of ResultSlot: the results are stored in completion order
CompletionSlot(f) == Cardinality(merged) + 1

\* The slot the as_completed loop writes a future's result to
ResultSlot(f) == futures[f].event_idx

\* for future in as_completed(future_to_event): events[event_idx] = future.result()
CollectResult(f) ==
    /\ pc = "pool"
    /\ Len(futures) = Len(events)
    /\ f \in Finished \ merged
    /\ events' = [events EXCEPT ![ResultSlot(f)] = futures[f].arg]
    /\ merged' = merged \cup {f}
    /\ UNCHANGED << pc, soup, event_items, preliminary, objs, futures, work_queue, windowVars, runVars >>

\* Faulty variant of AllCollected: the function returns without waiting
NoneAwaited == TRUE

\* The as_completed loop has handled every future and the with block is left
AllCollected == merged = 1..Len(futures)

\* return events
ReturnEvents ==
    /\ pc = "pool"
    /\ Len(futures) = Len(events)
    /\ AllCollected
    /\ pc' = "returned"
    /\ UNCHANGED << scrapeVars, windowVars, runVars >>

NextScrape ==
    \/ FindItems
    \/ ExtractEvents
    \/ SubmitTask
    \/ StartTask
    \/ \E f \in 1..Len(futures), raise \in RaisePoints : FinishTask(f, raise)
    \/ \E f \in 1..Len(futures) : CollectResult(f)
    \/ ReturnEvents

SpecScrape == InitScrape /\ [][NextScrape]_vars

\* Some step of the scrape can be taken: the guards of the actions of
\* NextScrape, each of which changes pc, futures, work_queue or merged.
CanStep ==
    \/ pc \in { "start", "found" }
    \/ /\ pc = "pool"
       /\ Len(futures) < Len(events)
       /\ IsSome(objs[events[Len(futures) + 1]].event_link)
    \/ work_queue # << >> /\ WorkerFree
    \/ Running # {}
    \/ pc = "pool" /\ Len(futures) = Len(events) /\ Finished \ merged # {}
    \/ pc = "pool" /\ Len(futures) = Len(events) /\ AllCollected

\* The main thread and the worker threads run on, and every request returns
\* or fails: weak fairness of NextScrape, WF_vars(NextScrape), written with
\* the guards in the place of ENABLED <<NextScrape>>_vars.
FairScrape == SpecScrape /\ ([]<>(~CanStep) \/ []<><<NextScrape>>_vars)

-----------------------------------------------------------------------------
(* The listing phase on pages of any shape *)

\* The most elements of a page
MaxElems == 3

Kind(tag, class, node) == [ tag |-> tag, class |-> class, node |-> node ]

\* Elements that hold others: the site's list of events, a list of another
\* tag, a div of no event class, and a div whose class names items
Holders ==
    { Kind("div", << "events-list" >>, EmptyNode),
      Kind("ul", << "raids" >>, EmptyNode),
      Kind("div", << "page-content" >>, EmptyNode),
      Kind("div", << "battle-items" >>, EmptyNode) }

\* Elements that hold text: event links, a second link of the first title, a
\* link that leads elsewhere, an item that is no link, a link whose title
\* element is empty, and a link whose title is too short
Leaves ==
    { Kind("a", ItemClass, NodeCommunityDay),
      Kind("a", << >>, Node(None, Some("Community Day: Eevee"), None,
                            Some("/events/cd-eevee-2/"), << "Community Day: Eevee" >>, << >>)),
      Kind("a", << >>, Node(Some("Shadow Raid Hour"), None, None, Some("/about/raid-hour/"),
                            << "Shadow Raid Hour", "Wed, Mar 18, 2026 6:00 PM" >>, << >>)),
      Kind("div", << "item" >>, NodeNoLink),
      Kind("a", ItemClass, Node(Some("GO Fest 2026"), None, None, Some("/go-fest-2026/"),
                                << "GO Fest 2026" >>, << >>)),
      Kind("a", << "nav-item" >>, Node(Some(""), None, Some("Dynamax Weekend"),
                                       Some("/raid-bosses/"), << >>, << >>)),
      Kind("a", ItemClass, Node(Some("GO"), None, None, Some("/events/go/"), << "GO" >>, << >>)),
      Kind("a", ItemClass, NodeMaxMonday) }

RECURSIVE OpenFrom(_, _)
\* The holders an element after j can be put in: j and the elements around it
OpenFrom(doc, j) ==
    IF j = 0 THEN {0}
    ELSE (IF doc[j].node = EmptyNode THEN {j} ELSE {}) \cup OpenFrom(doc, doc[j].parent)

RECURSIVE Pages(_)
\* The pages of at most n elements, in document order
Pages(n) ==
    IF n = 0 THEN { << >> }
    ELSE Pages(n - 1) \cup
         UNION { { Append(doc, Element(k.tag, k.class, parent, k.node)) :
                     k \in Holders \cup Leaves, parent \in OpenFrom(doc, Len(doc)) } :
                 doc \in { d \in Pages(n - 1) : Len(d) = n - 1 } }

InitListing ==
    /\ pc = "start"
    /\ soup \in Pages(MaxElems)
    /\ event_items = << >>
    /\ InitPoolVars
    /\ InitWindow
    /\ calendar = << >>
    /\ InitRun

NextListing ==
    \/ FindItems
    \/ ExtractEvents

SpecListing == InitListing /\ [][NextListing]_vars

-----------------------------------------------------------------------------
(* The pool under load: more records than worker threads *)

\* A node of its own title whose link the site does not serve
PoolNode(k) ==
    Node(Some("Research Day " \o DigitStr(k)), None, None,
         Some("/events/research-day-" \o DigitStr(k) \o "/"),
         << "Research Day " \o DigitStr(k) >>, << >>)

InitPool ==
    /\ pc = "start"
    /\ soup = Listing([ k \in 1..PoolSize |-> PoolNode(k) ])
    /\ event_items = << >>
    /\ InitPoolVars
    /\ InitWindow
    /\ calendar = << >>
    /\ InitRun

SpecPool == InitPool /\ [][NextScrape]_vars

-----------------------------------------------------------------------------
(* main and EventConfirmationUI *)

\* get_detailed_event_info(event['event_link'], headers, event) when no call raises
Enriched(event) == get_detailed_event_info(event, SitePage(Get(event.event_link)), "none")

\* The dicts scrape_leekduck_events returns for its records when no call raises
EnrichAll(records) == [ i \in 1..Len(records) |-> Enriched(records[i]) ]

\* datetime1 < datetime2
DateTimeLess(a, b) ==
    \/ DateAfter(DateOf(b), DateOf(a))
    \/ DateOf(a) = DateOf(b) /\ MinuteOfDay(a) < MinuteOfDay(b)

\* The positions of the events list display_events gives a card to
Shown == { i \in 1..Len(events) : IsSome(objs[events[i]].start_time) }

\* sorted() is stable: i comes before j
ShownBefore(i, j) ==
    \/ DateTimeLess(Get(objs[events[i]].start_time), Get(objs[events[j]].start_time))
    \/ objs[events[i]].start_time = objs[events[j]].start_time /\ i < j

\* The position in the events list of the r-th card
CardEvent(r) ==
    CHOOSE i \in Shown : Cardinality({ j \in Shown : ShownBefore(j, i) }) = r - 1

\* frame_data and the BooleanVar of create_event_card
Card(event_object) ==
    [ event_object |-> event_object, type |-> objs[event_object].event_type, value |-> TRUE ]

\* display_events: the cards by start time, for the events that hold one
Cards == [ r \in 1..Cardinality(Shown) |-> Card(events[CardEvent(r)]) ]

\* main, when the scrape found nothing
ExitNoEvents ==
    /\ pc = "returned"
    /\ events = << >>
    /\ pc' = "exit"
    /\ UNCHANGED << scrapeVars, windowVars, runVars >>

\* main builds the window: EventConfirmationUI.__init__, setup_ui, display_events
LaunchUI ==
    /\ pc = "returned"
    /\ events # << >>
    /\ var_checkboxes' = Cards
    /\ filter_vars' = [ t \in { objs[events[i]].event_type : i \in 1..Len(events) } |-> TRUE ]
    /\ select_all_var' = TRUE
    /\ pc' = "window"
    /\ UNCHANGED << scrapeVars, runVars >>

\* The user clicks the checkbox of a card
ToggleCheckbox(r) ==
    /\ pc = "window"
    /\ var_checkboxes' = [var_checkboxes EXCEPT ![r].value = ~var_checkboxes[r].value]
    /\ UNCHANGED << pc, scrapeVars, filter_vars, select_all_var, runVars >>

\* The user clicks Select All: toggle_all(select_all_var.get())
toggle_all ==
    /\ pc = "window"
    /\ select_all_var' = ~select_all_var
    /\ var_checkboxes' = [ r \in 1..Len(var_checkboxes) |->
                             [var_checkboxes[r] EXCEPT !.value = ~select_all_var] ]
    /\ UNCHANGED << pc, scrapeVars, filter_vars, runVars >>

\* The user clicks a filter checkbox: apply_filters shows or hides the cards
apply_filters(event_type) ==
    /\ pc = "window"
    /\ filter_vars' = [filter_vars EXCEPT ![event_type] = ~filter_vars[event_type]]
    /\ UNCHANGED << pc, scrapeVars, var_checkboxes, select_all_var, runVars >>

\* Cancel: root.destroy
Cancel ==
    /\ pc = "window"
    /\ pc' = "exit"
    /\ UNCHANGED << scrapeVars, windowVars, runVars >>

\* submit: the checked cards of the types that are filtered in
Selection ==
    { r \in 1..Len(var_checkboxes) :
        var_checkboxes[r].value /\ filter_vars[var_checkboxes[r].type] }

RECURSIVE SelectedFrom(_)
SelectedFrom(r) ==
    IF r > Len(var_checkboxes) THEN << >>
    ELSE IF r \in Selection THEN << var_checkboxes[r].event_object >> \o SelectedFrom(r + 1)
    ELSE SelectedFrom(r + 1)

\* One line of the log
Logged(op, event, id, ok) == [ op |-> op, event |-> event, id |-> id, ok |-> ok ]

\* submit with nothing selected: the warning, and the window stays
SubmitNothing ==
    /\ pc = "window"
    /\ Selection = {}
    /\ Len(log) < MaxWarnings
    /\ log' = Append(log, Logged("showwarning", 0, "", TRUE))
    /\ UNCHANGED << pc, scrapeVars, windowVars, calendar, existing_events, selected_events,
                    pos, flags, created_events, updated_events, skipped_events >>

\* submit: create_calendar_events_direct(selected_events) up to its loop;
\* get_existing_events gives the entries of the calendar, or [] when the
\* request fails.
Submit(ok) ==
    /\ pc = "window"
    /\ Selection # {}
    /\ selected_events' = SelectedFrom(1)
    /\ existing_events' = IF ok THEN calendar ELSE << >>
    /\ log' = Append(log, Logged("list", 0, "", ok))
    /\ pos' = 1
    /\ pc' = "match"
    /\ UNCHANGED << scrapeVars, windowVars, calendar, flags,
                    created_events, updated_events, skipped_events >>

-----------------------------------------------------------------------------
(* create_calendar_events_direct: the loop over selected_events *)

\* event of the loop
Current == objs[selected_events[pos]]

HasTimes(event) == IsSome(event.start_time) /\ IsSome(event.end_time)

\* Where the run goes from the flags of the matching loop
AfterMatch(class) ==
    IF class = "skip" THEN "match" ELSE IF class = "update" THEN "ask" ELSE "insert"

\* "Skip events with unparseable dates": continue
SkipInvalid ==
    /\ skipped_events' = Append(skipped_events, Current.title \o " (invalid dates)")
    /\ pos' = pos + 1
    /\ UNCHANGED << pc, flags >>

\* The top of the loop body for the record at pos: the check of its times and
\* the matching loop over existing_events
MatchRecord ==
    /\ pc = "match"
    /\ pos <= Len(selected_events)
    /\ IF ~HasTimes(Current)
       THEN SkipInvalid
       ELSE /\ flags' = MatchLoop(existing_events, 1, Current)
            /\ pc' = AfterMatch(Classify(flags'))
            /\ IF Classify(flags') = "skip"
               THEN /\ skipped_events' =
                           Append(skipped_events, Current.title \o " (already exists)")
                    /\ pos' = pos + 1
               ELSE UNCHANGED << skipped_events, pos >>
    /\ UNCHANGED << scrapeVars, windowVars, calendar, existing_events, selected_events,
                    created_events, updated_events, log >>

\* Faulty variant of Declined: a declined update is not noted
DeclinedUnnoted(skipped, title) == skipped

\* "User chose not to update": the record is noted as skipped
Declined(skipped, title) == Append(skipped, title \o " (update declined)")

\* messagebox.askyesno("Update Event?", ...)
AskUpdate(answer) ==
    /\ pc = "ask"
    /\ log' = Append(log, Logged("askyesno", pos, Get(flags.existing_event_id), answer))
    /\ IF answer
       THEN /\ pc' = "delete"
            /\ UNCHANGED << skipped_events, pos >>
       ELSE /\ skipped_events' = Declined(skipped_events, Current.title)
            /\ pos' = pos + 1
            /\ pc' = "match"
    /\ UNCHANGED << scrapeVars, windowVars, calendar, existing_events, selected_events,
                    flags, created_events, updated_events >>

\* The entries of a list other than the one of an id
Without(entries, id) == SelectSeq(entries, LAMBDA e : e.id # id)

Holds(entries, id) == \E k \in 1..Len(entries) : entries[k].id = id

\* "Delete the old event first": the request succeeds or raises; it cannot
\* succeed for an entry the calendar no longer holds.
DeleteOld(ok) ==
    /\ pc = "delete"
    /\ ok => Holds(calendar, Get(flags.existing_event_id))
    /\ log' = Append(log, Logged("delete", pos, Get(flags.existing_event_id), ok))
    /\ pc' = AfterDelete(ok)
    /\ pos' = IF pc' = "match" THEN pos + 1 ELSE pos
    /\ IF ok
       THEN /\ calendar' = Without(calendar, Get(flags.existing_event_id))
            /\ updated_events' =
                   Append(updated_events, << Get(flags.existing_event_title), Current.title >>)
            /\ UNCHANGED skipped_events
       ELSE /\ skipped_events' = Append(skipped_events, Current.title \o " (update failed)")
            /\ UNCHANGED << calendar, updated_events >>
    /\ UNCHANGED << scrapeVars, windowVars, existing_events, selected_events, flags,
                    created_events >>

\* The id the service gives the next entry it stores
NewId == "new" \o DigitStr(Len(created_events) + 1)

\* "Insert event"
InsertEvent(ok) ==
    /\ pc = "insert"
    /\ log' = Append(log, Logged("insert", pos, "", ok))
    /\ IF ok
       THEN /\ calendar' = Append(calendar, calendar_event(Current, NewId))
            /\ created_events' = Append(created_events, Current.title)
            /\ UNCHANGED skipped_events
       ELSE /\ skipped_events' = Append(skipped_events, Current.title \o " (creation failed)")
            /\ UNCHANGED << calendar, created_events >>
    /\ pos' = pos + 1
    /\ pc' = AfterInsert(ok)
    /\ UNCHANGED << scrapeVars, windowVars, existing_events, selected_events, flags,
                    updated_events >>

\* "Prepare final message": the dialog with the three lists, then root.destroy
ShowReport ==
    /\ pc = "match"
    /\ pos > Len(selected_events)
    /\ log' = Append(log, Logged("showinfo", 0, "", TRUE))
    /\ pc' = "closed"
    /\ UNCHANGED << scrapeVars, windowVars, calendar, existing_events, selected_events,
                    pos, flags, created_events, updated_events, skipped_events >>

\* main after the scrape returned the events of a listing
InitCal ==
    /\ pc = "returned"
    /\ soup \in Listings
    /\ event_items = FindEventItems(soup)
    /\ preliminary = Extract(ItemsOf(soup, event_items))
    /\ objs = EnrichAll(preliminary)
    /\ events = [ i \in 1..Len(objs) |-> i ]
    /\ futures = << >>
    /\ work_queue = << >>
    /\ merged = {}
    /\ InitWindow
    /\ calendar \in SubLists(StoreEntries)
    /\ InitRun

NextCal ==
    \/ ExitNoEvents
    \/ LaunchUI
    \/ \E r \in 1..Len(var_checkboxes) : ToggleCheckbox(r)
    \/ toggle_all
    \/ \E event_type \in DOMAIN filter_vars : apply_filters(event_type)
    \/ Cancel
    \/ SubmitNothing
    \/ \E ok \in BOOLEAN : Submit(ok)
    \/ MatchRecord
    \/ \E answer \in BOOLEAN : AskUpdate(answer)
    \/ \E ok \in BOOLEAN : DeleteOld(ok)
    \/ \E ok \in BOOLEAN : InsertEvent(ok)
    \/ ShowReport

SpecCal == InitCal /\ [][NextCal]_vars

-----------------------------------------------------------------------------
(* main from the scrape to the report, on a calendar that holds the entries *)

InitMain ==
    /\ pc = "start"
    /\ soup \in Listings
    /\ event_items = << >>
    /\ InitPoolVars
    /\ InitWindow
    /\ calendar = StoreEntries
    /\ InitRun

NextMain == NextScrape \/ NextCal

SpecMain == InitMain /\ [][NextMain]_vars

-----------------------------------------------------------------------------
(* The run for one listed title against one entry of its date *)

Titles ==
    { "LeekDuck Community Day: Bulbasaur", "Community Day: Charmander",
      "Community Day: Eevee", "community day: eevee",
      "Featured Raid Hour", "Raid Hour Event",
      "Eevee and Pikachu Bonus", "Eevee Research",
      "Max Battle Weekend", "GO" }

\* A node of a title, of a date and time, whose link the site does not serve
TitleNode(title) ==
    Node(Some(title), None, None, Some("/events/listed/"),
         << title, "Sat, Mar 14, 2026 2:00 PM" >>, << "events-list" >>)

InitMatcher ==
    /\ pc = "returned"
    /\ soup \in { Listing(<< TitleNode(title) >>) : title \in Titles }
    /\ event_items = FindEventItems(soup)
    /\ preliminary = Extract(ItemsOf(soup, event_items))
    /\ objs = EnrichAll(preliminary)
    /\ events = [ i \in 1..Len(objs) |-> i ]
    /\ futures = << >>
    /\ work_queue = << >>
    /\ merged = {}
    /\ InitWindow
    /\ calendar \in { << Entry("m1", title, AllDay("2026-03-14")) >> : title \in Titles }
    /\ InitRun

SpecMatcher == InitMatcher /\ [][NextCal]_vars

-----------------------------------------------------------------------------
(* The listing phase for one node of a title under a parent of some classes *)

TypedTitles ==
    { "Shadow Raid Hour", "Raid Battle Community Day", "RAIDS OF MARCH",
      "Community Day Spotlight", "Spotlight Battle League", "SPOTLIGHT HOUR",
      "GO Battle Hatch", "League Mega Cup", "Hatch Day Mega Ticket",
      "Mega Shadow Ticket", "Shadow Power Up Ticket", "Event Ticket",
      "Shadow Pokemon Return", "Max Monday", "Research Day" }

ParentClasses ==
    { << >>, << "events-list" >>, << "raid-bosses" >>, << "Battle-Items" >>,
      << "raid-list", "battle-list" >>, << "battle-list", "raid-list" >>,
      << "battle-list", "current" >> }

\* A node of a title, with a link, in a parent of the given classes
TypedNode(title, parent_class) ==
    Node(Some(title), None, None, Some("/events/typed/"), << title >>, parent_class)

InitTyping ==
    /\ pc = "start"
    /\ soup \in { Listing(<< TypedNode(title, parent_class) >>) :
                    title \in TypedTitles, parent_class \in ParentClasses }
    /\ event_items = << >>
    /\ InitPoolVars
    /\ InitWindow
    /\ calendar = << >>
    /\ InitRun

SpecTyping == InitTyping /\ [][NextListing]_vars

-----------------------------------------------------------------------------
(* The run for one record of a start and an end *)

StartClocks == { "12:00 AM", "1:59 AM", "2:00 AM", "9:59 AM", "10:00 AM" }

EndClocks == { "6:00 PM", "6:30 PM", "7:00 PM", "9:59 PM", "10:00 PM" }

EndDays == { "Saturday, March 14", "Sunday, March 15" }

\* The text of a time on a detail page
LocalTime(day, clock) == day \o ", 2026, at " \o clock \o " Local Time"

\* A detail page of a start on March 14 and of an end
SchedulePage(start_clock, end_day, end_clock) ==
    Page(Some(LocalTime("Saturday, March 14", start_clock)),
         Some(LocalTime(end_day, end_clock)), << >>, None)

\* The records of the listing of one node, enriched from a detail page
ScheduledFrom(records, page) ==
    [ i \in 1..Len(records) |-> get_detailed_event_info(records[i], page, "none") ]

InitSchedule ==
    /\ pc = "returned"
    /\ soup \in { Listing(<< >>), Listing(<< TitleNode("Community Day: Eevee") >>) }
    /\ event_items = FindEventItems(soup)
    /\ preliminary = Extract(ItemsOf(soup, event_items))
    /\ objs \in { ScheduledFrom(preliminary, SchedulePage(start_clock, end_day, end_clock)) :
                    start_clock \in StartClocks, end_day \in EndDays, end_clock \in EndClocks }
    /\ events = [ i \in 1..Len(objs) |-> i ]
    /\ futures = << >>
    /\ work_queue = << >>
    /\ merged = {}
    /\ InitWindow
    /\ calendar \in { << >>, SubSeq(StoreEntries, 1, 1) }
    /\ InitRun

SpecSchedule == InitSchedule /\ [][NextCal]_vars

-----------------------------------------------------------------------------
(* The scrape of one record whose detail page shows a text of a time *)

\* A node whose link is that of the page of the k-th text
DateNode(k) ==
    Node(Some("Research Day"), None, None, Some(DateLink(k)), << "Research Day" >>, << >>)

InitNormalizer ==
    /\ pc = "start"
    /\ soup \in { Listing(<< DateNode(k) >>) : k \in 1..Len(DateTexts) }
    /\ event_items = << >>
    /\ InitPoolVars
    /\ InitWindow
    /\ calendar = << >>
    /\ InitRun

SpecNormalizer == InitNormalizer /\ [][NextScrape]_vars

-----------------------------------------------------------------------------
(* The run for listings of two titles of one date *)

SharedTitles == { "Community Day: Eevee", "Community Day Classic: Eevee", "Max Monday" }

InitShared ==
    /\ pc = "returned"
    /\ soup \in { Listing([ k \in 1..Len(titles) |-> TitleNode(titles[k]) ]) :
                    titles \in SeqsUpTo(SharedTitles, MaxItems) }
    /\ event_items = FindEventItems(soup)
    /\ preliminary = Extract(ItemsOf(soup, event_items))
    /\ objs = EnrichAll(preliminary)
    /\ events = [ i \in 1..Len(objs) |-> i ]
    /\ futures = << >>
    /\ work_queue = << >>
    /\ merged = {}
    /\ InitWindow
    /\ calendar \in { SubSeq(StoreEntries, 1, n) : n \in 0..2 }
    /\ InitRun

SpecShared == InitShared /\ [][NextCal]_vars

-----------------------------------------------------------------------------
(* The run after a run that inserted the entry of every record shown *)

\* The entries a run inserts when it creates every record that has a card, as
\* the service lists them: by their start
EntriesOfRun ==
    [ r \in 1..Cardinality(Shown) |->
        calendar_event(objs[events[CardEvent(r)]], "new" \o DigitStr(r)) ]

InitRerun ==
    /\ pc = "returned"
    /\ soup \in Listings
    /\ event_items = FindEventItems(soup)
    /\ preliminary = Extract(ItemsOf(soup, event_items))
    /\ objs = EnrichAll(preliminary)
    /\ events = [ i \in 1..Len(objs) |-> i ]
    /\ futures = << >>
    /\ work_queue = << >>
    /\ merged = {}
    /\ InitWindow
    /\ calendar = EntriesOfRun
    /\ InitRun

SpecRerun == InitRerun /\ [][NextCal]_vars

-----------------------------------------------------------------------------
(* Properties *)

\* The record of the run's k-th dialog or request
LogEvent(k) == objs[selected_events[log[k].event]]

HasExactDuplicate(event) ==
    \E e \in 1..Len(existing_events) :
        /\ existing_events[e].summary = event.title
        /\ ExistingDate(existing_events[e]) = Some(DateOf(Get(event.start_time)))

\* The entries on the record's start date that are of its event type or of a
\* similar title
UpdateTargets(event) ==
    { e \in 1..Len(existing_events) :
        /\ ExistingDate(existing_events[e]) = Some(DateOf(Get(event.start_time)))
        /\ \/ is_same_event_type(existing_events[e].summary, event.title)
           \/ is_similar_title(existing_events[e].summary, event.title) }

\* C1: a record for which some existing entry has an equal title and the same
\* date is skipped as a duplicate: no confirmation is asked for it and no
\* delete and no insert is sent for it, whatever else the list holds and in
\* whatever order.
ExactDuplicateIsSkipped ==
    \A k \in 1..Len(log) :
        log[k].op \in { "askyesno", "delete", "insert" } => ~HasExactDuplicate(LogEvent(k))

\* C2: a record with both times that no existing entry duplicates is an update
\* candidate, for the id of an entry of its date that is of the same event
\* type or of a similar title, iff there is such an entry, and is new (it goes
\* to the insert with no confirmation) otherwise; against a list that holds
\* only 'Eevee Community Day' on their date, 'Shadow Raid Weekend' is new and
\* 'Community Day: Eevee' is an update candidate for that entry.
UpdateOrNew ==
    (pc \in { "ask", "delete", "insert" } /\ ~HasExactDuplicate(Current)) =>
        /\ flags.update_existing <=> UpdateTargets(Current) # {}
        /\ flags.update_existing =>
               \E e \in UpdateTargets(Current) :
                   flags.existing_event_id = Some(existing_events[e].id)
        /\ ~flags.update_existing => pc = "insert"
        /\ pc = "ask" => flags.update_existing
        /\ existing_events = << StoreEntries[1] >> =>
               /\ Current.title = "Shadow Raid Weekend" => ~flags.update_existing
               /\ Current.title = "Community Day: Eevee" =>
                      flags.update_existing /\ flags.existing_event_id = Some("e1")

\* C2, reached: 'Shadow Raid Weekend' was inserted as new and the confirmation
\* for 'Community Day: Eevee' is about to be asked, the list holding only
\* 'Eevee Community Day' on the date of both.
UpdateOrNewReached ==
    /\ pc = "ask"
    /\ Current.title = "Community Day: Eevee"
    /\ existing_events = << StoreEntries[1] >>
    /\ created_events = << "Shadow Raid Weekend" >>
    /\ DateOf(Get(objs[selected_events[1]].start_time)) = DateOf(Get(Current.start_time))

\* C3: a delete is sent only after the confirmation for that record and entry
\* was answered yes; an insert for a record that needed a confirmation is sent
\* only after a yes and after a delete for it that succeeded; after a no,
\* neither a delete nor an insert is sent for the record.
UpdateProtocol ==
    /\ \A k \in 1..Len(log) :
           log[k].op = "delete" =>
               \E j \in 1..(k - 1) :
                   /\ log[j].op = "askyesno"
                   /\ log[j].event = log[k].event
                   /\ log[j].id = log[k].id
                   /\ log[j].ok
    /\ \A j, k \in 1..Len(log) :
           (log[j].op = "askyesno" /\ log[k].op = "insert" /\ log[j].event = log[k].event) =>
               /\ log[j].ok
               /\ \E d \in (j + 1)..(k - 1) :
                      log[d].op = "delete" /\ log[d].event = log[k].event /\ log[d].ok
    /\ \A j, k \in 1..Len(log) :
           (log[j].op = "askyesno" /\ ~log[j].ok /\ log[k].event = log[j].event) =>
               log[k].op \notin { "delete", "insert" }

\* C3, reached: a run with a confirmed update (yes, delete, insert), a declined
\* one is covered by the runs that end after a no.
UpdateProtocolReached ==
    \E j, d, k \in 1..Len(log) :
        /\ j < d /\ d < k
        /\ log[j].op = "askyesno" /\ log[j].ok
        /\ log[d].op = "delete" /\ log[d].ok /\ log[d].event = log[j].event
        /\ log[k].op = "insert" /\ log[k].event = log[j].event

\* The preliminary record of a dict
Preliminary(a) == preliminary[a]

OneDetailedTime(event) ==
    IsSome(event.detailed_start_time) # IsSome(event.detailed_end_time)

\* C4: a record whose detail page gave a start but no end, or an end but no
\* start, has the start, the end and the multi-day flag of its preliminary
\* record, absent if they were absent.
PartialEnrichmentDiscarded ==
    \A a \in DOMAIN objs :
        OneDetailedTime(objs[a]) =>
            /\ objs[a].start_time = Preliminary(a).start_time
            /\ objs[a].end_time = Preliminary(a).end_time
            /\ objs[a].is_multi_day = Preliminary(a).is_multi_day

\* C4, reached: two enriched records with one detailed time each, one that had
\* preliminary times and one that had none.
PartialEnrichmentReached ==
    \E f, g \in DOMAIN futures :
        /\ futures[f].state = "finished" /\ futures[g].state = "finished"
        /\ OneDetailedTime(objs[futures[f].arg]) /\ HasTimes(objs[futures[f].arg])
        /\ OneDetailedTime(objs[futures[g].arg]) /\ ~HasTimes(objs[futures[g].arg])

\* C5: every record that has times has is_multi_day equal to
\* (end_time.date() > start_time.date()), the preliminary records with their
\* end one hour after the start included.
MultiDayMatchesDates ==
    \A a \in DOMAIN objs :
        HasTimes(objs[a]) =>
            objs[a].is_multi_day =
                Some(DateAfter(DateOf(Get(objs[a].end_time)), DateOf(Get(objs[a].start_time))))

\* C6: start_time and end_time of a record are both present or both absent,
\* after the preliminary parsing and after an enrichment that succeeded,
\* was partial or failed.
TimePairInvariant ==
    \A a \in DOMAIN objs : IsSome(objs[a].start_time) <=> IsSome(objs[a].end_time)

\* C6, reached: an enrichment that raised after it had parsed the start, of a
\* record with preliminary times, and one of a record without.
TimePairReached ==
    \E f, g \in DOMAIN futures :
        /\ futures[f].state = "finished" /\ futures[f].raised
        /\ OneDetailedTime(objs[futures[f].arg]) /\ HasTimes(objs[futures[f].arg])
        /\ futures[g].state = "finished"
        /\ OneDetailedTime(objs[futures[g].arg])
        /\ ~IsSome(objs[futures[g].arg].start_time)

\* C7: a record whose enrichment raised keeps exactly its preliminary data, no
\* field added or changed.
FailedEnrichmentKeepsPreliminary ==
    \A f \in DOMAIN futures :
        (futures[f].state = "finished" /\ futures[f].raised) =>
            objs[futures[f].arg] = Preliminary(futures[f].arg)

\* C8: at most 5 fetches are in flight, however many records there are.
BoundedParallelism == Cardinality(Running) <= 5

\* C8, reached: 5 fetches in flight while a further task waits for a thread.
PoolSaturated == Cardinality(Running) = 5 /\ work_queue # << >>

\* C9: whatever the order of completion, the events list keeps the length and
\* the order (by title and link) of the preliminary records, and the result
\* of the enrichment of record i is in slot i and in no other slot.
OrderStable ==
    pc \in { "pool", "returned" } =>
        /\ Len(events) = Len(preliminary)
        /\ \A i \in 1..Len(events) :
               /\ objs[events[i]].title = Preliminary(i).title
               /\ objs[events[i]].event_link = Preliminary(i).event_link
        /\ \A f \in merged :
               /\ futures[f].arg = f
               /\ \A i \in 1..Len(events) : events[i] = futures[f].arg <=> i = f

\* C9, reached: the result of a later record was stored while the fetch of an
\* earlier one was still in flight.
OutOfOrderCompletion ==
    \E f, g \in DOMAIN futures :
        f < g /\ g \in merged /\ f \notin merged /\ futures[f].state = "running"

\* C10: every record of the scrape that lacks a start or an end is in the
\* skipped list of the final report.
UnschedulableReported ==
    pc = "closed" =>
        \A i \in 1..Len(events) :
            ~HasTimes(objs[events[i]]) =>
                \E k \in 1..Len(skipped_events) :
                    skipped_events[k] = objs[events[i]].title \o " (invalid dates)"

\* The requests and dialogs of one kind the run made for the record at p
Ops(p, op) == { k \in 1..Len(log) : log[k].op = op /\ log[k].event = p }

IsSkipped(event, reason) ==
    \E k \in 1..Len(skipped_events) : skipped_events[k] = event.title \o reason

\* The record at p was taken through the loop body as its class demands
ProcessedAs(p, event, class) ==
    /\ class = "skip" =>
           /\ IsSkipped(event, " (already exists)")
           /\ Ops(p, "askyesno") \cup Ops(p, "delete") \cup Ops(p, "insert") = {}
    /\ class = "update" => Cardinality(Ops(p, "askyesno")) = 1
    /\ class = "new" =>
           /\ Cardinality(Ops(p, "insert")) = 1
           /\ Ops(p, "askyesno") \cup Ops(p, "delete") = {}
    /\ \/ IsSkipped(event, " (already exists)") \/ IsSkipped(event, " (update declined)")
       \/ IsSkipped(event, " (update failed)") \/ IsSkipped(event, " (creation failed)")
       \/ \E k \in 1..Len(created_events) : created_events[k] = event.title

Processed(p) ==
    ProcessedAs(p, objs[selected_events[p]],
                Classify(MatchLoop(existing_events, 1, objs[selected_events[p]])))

\* C11: a record whose delete or insert failed is in the skipped list with the
\* reason, and every record of the selection, those after a failure included,
\* is matched against the entries read at the start and gets the dialog or
\* the request its match demands, and an outcome, by the time the run reports.
FailureIsolated ==
    /\ \A k \in 1..Len(log) :
           /\ (log[k].op = "delete" /\ ~log[k].ok) => IsSkipped(LogEvent(k), " (update failed)")
           /\ (log[k].op = "insert" /\ ~log[k].ok) =>
                  IsSkipped(LogEvent(k), " (creation failed)")
    /\ \A p \in 1..Len(selected_events) :
           (p < pos \/ pc = "closed") => Processed(p)

\* C11, reached: the delete for the first record failed, the insert for the
\* second one failed, and the run reported both.
FailureIsolatedReached ==
    /\ pc = "closed"
    /\ \E j, k \in 1..Len(log) :
           /\ j < k
           /\ log[j].op = "delete" /\ ~log[j].ok /\ log[j].event = 1
           /\ log[k].op = "insert" /\ ~log[k].ok /\ log[k].event = 2
    /\ Len(skipped_events) = 2

\* The nodes the page's search gave
Found == { event_items[k] : k \in 1..Len(event_items) }

Anchors == { j \in 1..Len(soup) : soup[j].tag = "a" }

HasClassOf(j, words) == ClassHas(soup[j].class, words)

\* The result of the first of three searches that yields a node
FirstYield(a, b, c) == IF a # {} THEN a ELSE IF b # {} THEN b ELSE c

HrefHasEvents == { j \in Anchors : IsEventLink(soup, j) }

\* (a) and (c) of the chain, for elements of any tag
UnderEventElements ==
    { j \in Anchors :
        \E i \in 1..Len(soup) : IsUnder(soup, j, i) /\ HasClassOf(i, { "event", "raids" }) }

ItemElements == { j \in 1..Len(soup) : HasClassOf(j, { "item", "event", "raid" }) }

\* (a) and (c) of the chain, for the tags the searches name
UnderEventDivs ==
    { j \in Anchors :
        /\ IsSome(soup[j].node.href)
        /\ \E i \in 1..Len(soup) :
               soup[i].tag = "div" /\ IsUnder(soup, j, i) /\ HasClassOf(i, { "event", "raids" }) }

ItemDivsAndAnchors == { j \in ItemElements : soup[j].tag \in { "div", "a" } }

\* C12: the nodes found are those of the first search, in the order (a) anchors
\* under elements whose class holds 'event' or 'raids', (b) anchors whose href
\* holds '/events/', (c) elements whose class holds 'item', 'event' or 'raid',
\* that yields a node.
FirstStrategyAnyElement ==
    pc # "start" => Found = FirstYield(UnderEventElements, HrefHasEvents, ItemElements)

\* C12, as amended: the nodes found are those of the first search, in the order
\* (a) anchors with an href under div elements whose class holds 'event' or
\* 'raids', (b) anchors whose href holds '/events/', (c) div and anchor
\* elements whose class holds 'item', 'event' or 'raid', that yields a node; a
\* later search counts only when every earlier one yielded none, and no node
\* of a later search is added to those of an earlier one.
FirstStrategyWins ==
    pc # "start" =>
        /\ Found = FirstYield(UnderEventDivs, HrefHasEvents, ItemDivsAndAnchors)
        /\ UnderEventDivs # {} => Found = UnderEventDivs
        /\ Found \cap (HrefHasEvents \ UnderEventDivs) # {} => UnderEventDivs = {}
        /\ Found \cap (ItemDivsAndAnchors \ (UnderEventDivs \cup HrefHasEvents)) # {} =>
               UnderEventDivs \cup HrefHasEvents = {}

\* C12, reached: each of the three searches yields a node the others do not
\* all yield, and the nodes of the first are found.
FirstStrategyReached ==
    /\ pc = "found"
    /\ UnderEventDivs # {} /\ Found = UnderEventDivs
    /\ HrefHasEvents \ UnderEventDivs # {}
    /\ ItemDivsAndAnchors \ (UnderEventDivs \cup HrefHasEvents) # {}

\* The title the loop gives the k-th node found
FoundTitle(k) == NodeTitle(ItemOf(soup, event_items[k]))

\* The first node found that carries a title
FirstCarrying(title) == Min({ k \in 1..Len(event_items) : FoundTitle(k) = title })

\* C13: every record of the output has a title of 3 characters or more and a
\* link, no two records have the same title, the records are in the order in
\* which their nodes were found, and each record is built from the first node
\* found that carries its title.
ExtractorOutput ==
    pc = "pool" =>
        /\ \A i \in 1..Len(preliminary) :
               /\ Len(preliminary[i].title) >= 3
               /\ IsSome(preliminary[i].event_link)
               /\ \E k \in 1..Len(event_items) : FoundTitle(k) = preliminary[i].title
               /\ preliminary[i].original_index + 1 = FirstCarrying(preliminary[i].title)
               /\ preliminary[i].event_link =
                      Some(Absolute(Get(soup[event_items[preliminary[i].original_index + 1]]
                                            .node.href)))
        /\ \A i, j \in 1..Len(preliminary) :
               i < j => /\ preliminary[i].title # preliminary[j].title
                        /\ preliminary[i].original_index < preliminary[j].original_index

\* C13, reached: two nodes of one title and different links and a node of a
\* title of two characters were found, and the output holds one record, with
\* the link of the first node.
ExtractorOutputReached ==
    /\ pc = "pool"
    /\ Len(event_items) = 3
    /\ FoundTitle(1) = FoundTitle(2)
    /\ soup[event_items[1]].node.href # soup[event_items[2]].node.href
    /\ Len(FoundTitle(3)) = 2
    /\ Len(preliminary) = 1
    /\ preliminary[1].event_link = Some(Absolute(Get(soup[event_items[1]].node.href)))

\* The pairs of titles the matching loop has compared: the summary of an entry
\* and the title of a record
Compared ==
    { << existing_events[e].summary, objs[selected_events[p]].title >> :
        e \in 1..Len(existing_events),
        p \in { q \in 1..Len(selected_events) : q < pos \/ (q = pos /\ pc # "match") } }

SharesPattern(a, b) ==
    \E pattern \in { "community day", "spotlight hour", "raid day", "hatch day",
                      "battle day", "max battle", "go fest" } :
        Contains(Lower(a), pattern) /\ Contains(Lower(b), pattern)

\* C14: is_same_event_type is true of two titles iff a pattern of the list is
\* in both lower-cased titles and these are not identical; it is false of a
\* title and itself and the same for (a, b) and (b, a); it is true of
\* 'LeekDuck Community Day: Bulbasaur' and 'Community Day: Charmander'.
SameEventTypeRule ==
    /\ \A c \in Compared :
           /\ is_same_event_type(c[1], c[2]) <=>
                  (SharesPattern(c[1], c[2]) /\ Lower(c[1]) # Lower(c[2]))
           /\ ~is_same_event_type(c[1], c[1])
           /\ ~is_same_event_type(c[2], c[2])
           /\ is_same_event_type(c[1], c[2]) <=> is_same_event_type(c[2], c[1])
    /\ (pc = "ask" /\ existing_events[1].summary = "LeekDuck Community Day: Bulbasaur"
                   /\ Current.title = "Community Day: Charmander") =>
           is_same_event_type(existing_events[1].summary, Current.title)

\* C14, reached: the loop took 'Community Day: Charmander' for an update of
\* 'LeekDuck Community Day: Bulbasaur'.
SameEventTypeReached ==
    /\ pc = "ask"
    /\ << "LeekDuck Community Day: Bulbasaur", "Community Day: Charmander" >> \in Compared
    /\ flags.update_existing

\* A name of the reference list is in both titles
SharesName(a, b) ==
    \E i \in 1..Len(pokemon_list) :
        Contains(Lower(a), pokemon_list[i]) /\ Contains(Lower(b), pokemon_list[i])

\* C15: is_similar_title is true of two titles iff their word sets without the
\* stop words share 2 words or more and half of the smaller set or more, or
\* a name of the reference list is in both titles, also when a title holds
\* more than one name of the list.
SimilarTitleRule ==
    \A c \in Compared :
        is_similar_title(c[1], c[2]) <=>
            \/ WordsSimilar(SignificantWords(Lower(c[1])), SignificantWords(Lower(c[2])))
            \/ SharesName(c[1], c[2])

\* The futures whose call returned without an exception
EnrichedFutures == { f \in 1..Len(futures) : futures[f].state = "finished" /\ ~futures[f].raised }

\* C16: get_detailed_event_info applied again to a record it has enriched,
\* with the same page, gives the record it was given: times, multi-day flag,
\* display strings, bonus, description and every other field.
EnrichmentIdempotent ==
    \A f \in EnrichedFutures :
        get_detailed_event_info(objs[futures[f].arg], SitePage(futures[f].url), "none")
            = objs[futures[f].arg]

\* C16, reached: a record whose times were replaced and whose description was
\* set, and a record that got a bonus, are enriched.
EnrichmentIdempotentReached ==
    \E f, g \in EnrichedFutures :
        /\ IsSome(objs[futures[f].arg].description)
        /\ objs[futures[f].arg].end_time # Preliminary(futures[f].arg).end_time
        /\ IsSome(objs[futures[g].arg].bonus)

\* C17: no task is dispatched before the items of the listing are found and
\* every preliminary record is built, and from the return of the scrape on,
\* while a record is matched, asked about, deleted for or inserted, every
\* dispatched task has finished and was collected: no call of
\* get_detailed_event_info is in flight or waiting.
PhasesSequential ==
    /\ pc \in { "start", "found" } => futures = << >> /\ preliminary = << >>
    /\ futures # << >> => Len(events) = Len(preliminary) /\ event_items # << >>
    /\ pc \notin { "start", "found", "pool" } =>
           /\ Running = {} /\ work_queue = << >>
           /\ Len(futures) = Len(events)
           /\ Finished = 1..Len(futures) /\ merged = Finished

\* C17, reached: a record is about to be inserted after the two tasks of the
\* scrape have finished.
PhasesSequentialReached ==
    /\ pc = "insert"
    /\ Len(futures) = 2
    /\ Finished = { 1, 2 }

\* Every record is given to one task at most and, by the return of the
\* scrape, every record that holds a link was given to a task that finished.
DispatchedOnce ==
    /\ \A f, g \in 1..Len(futures) : f # g => futures[f].arg # futures[g].arg
    /\ pc = "returned" =>
           \A a \in 1..Len(objs) :
               IsSome(objs[a].event_link) =>
                   Cardinality({ f \in Finished : futures[f].arg = a }) = 1

\* A task is created pending, goes from pending to running and from running
\* to finished, and a record changes only as its task finishes.
LifecycleStep ==
    /\ Len(futures') >= Len(futures)
    /\ \A f \in 1..Len(futures') :
           IF f > Len(futures) THEN futures'[f].state = "pending"
           ELSE /\ futures'[f].arg = futures[f].arg
                /\ << futures[f].state, futures'[f].state >> \in
                       { << "pending", "pending" >>, << "pending", "running" >>,
                         << "running", "running" >>, << "running", "finished" >>,
                         << "finished", "finished" >> }
                /\ futures[f].state = "finished" => futures'[f].raised = futures[f].raised
    /\ \A a \in 1..Len(objs) :
           (Len(objs') = Len(objs) /\ objs'[a] # objs[a]) =>
               \E f \in 1..Len(futures) :
                   /\ futures[f].arg = a
                   /\ futures[f].state = "running" /\ futures'[f].state = "finished"

\* C18: every record that holds a link is dispatched once and no two tasks
\* hold one record; a record goes from preliminary (task pending) to enriching
\* (running) to enriched or failed (finished, with or without an exception)
\* and no other way; and when every request returns or fails, every task
\* finishes and the scrape returns.
EnrichmentLifecycle ==
    /\ []DispatchedOnce
    /\ [][LifecycleStep]_vars
    /\ <>(pc = "returned" /\ Finished = 1..Len(futures))

\* C18, reached: the scrape returned with one record enriched and one whose
\* enrichment failed.
EnrichmentLifecycleReached ==
    /\ pc = "returned"
    /\ \E f, g \in Finished : futures[f].raised /\ ~futures[g].raised

\* The values of the four title sources of a node, in the order of the chain;
\* a source the node lacks has the empty value
TitleSources(item) ==
    << IF IsSome(item.title_elem) THEN Strip(Get(item.title_elem)) ELSE "",
       IF IsSome(item.bold_text) THEN Strip(Get(item.bold_text)) ELSE "",
       IF IsSome(item.img_alt) THEN Strip(Get(item.img_alt)) ELSE "",
       FirstLine(Strip(item.text)) >>

\* The first value of a sequence that is not empty, the empty value if none
FirstNonEmpty(values) ==
    LET filled == { n \in 1..Len(values) : values[n] # "" }
    IN  IF filled = {} THEN "" ELSE values[Min(filled)]

\* C19: the title the loop gives each node found is the first value that is
\* not empty among the title element's text, the bold text, the image's alt
\* text and the first line of the node's text, so that a node with a link
\* whose first such value has 3 characters or more has a record of that title
\* in the output.
TitleFallbackChain ==
    pc = "pool" =>
        \A k \in 1..Len(event_items) :
            LET item == ItemOf(soup, event_items[k])
                title == FirstNonEmpty(TitleSources(item))
            IN  /\ FoundTitle(k) = title
                /\ (Len(title) >= 3 /\ IsSome(item.href)) =>
                       \E i \in 1..Len(preliminary) : preliminary[i].title = title

\* The keyword rules, in their order: the words of each and its category
KeywordRules ==
    << << { "raid" }, "Raid" >>,
       << { "community day" }, "Community Day" >>,
       << { "spotlight" }, "Spotlight" >>,
       << { "battle", "league" }, "Battle" >>,
       << { "hatch" }, "Hatch Day" >>,
       << { "mega" }, "Mega" >>,
       << { "ticket" }, "Ticket" >>,
       << { "shadow" }, "Shadow" >> >>

\* The rules with a word the lower-cased title holds
RulesHit(title) ==
    { r \in 1..Len(KeywordRules) : \E w \in KeywordRules[r][1] : Contains(Lower(title), w) }

\* The category of the earliest rule hit, General when no rule is hit
FirstMatch(title) ==
    IF RulesHit(title) = {} THEN "General" ELSE KeywordRules[Min(RulesHit(title))][2]

\* Whether a class of the parent holds the word
HintOf(parent_class, word) ==
    \E c \in 1..Len(parent_class) : Contains(Lower(parent_class[c]), word)

\* C20: the category of a record is that of the earliest keyword rule its
\* lower-cased title hits, whatever the classes of the node's parent; only
\* when no rule is hit is it Raid or Battle by a raid or battle class of the
\* parent, and General when the parent has neither.
ClassifierFirstMatch ==
    pc = "pool" =>
        \A i \in 1..Len(preliminary) :
            LET ev == preliminary[i]
                parent_class == ParentClass(soup, event_items[ev.original_index + 1])
            IN  IF FirstMatch(ev.title) # "General"
                THEN ev.event_type = FirstMatch(ev.title)
                ELSE /\ ev.event_type \in { "General", "Raid", "Battle" }
                     /\ ev.event_type = "Raid" => HintOf(parent_class, "raid")
                     /\ ev.event_type = "Battle" => HintOf(parent_class, "battle")
                     /\ ev.event_type = "General" =>
                            ~HintOf(parent_class, "raid") /\ ~HintOf(parent_class, "battle")

\* C20, reached: 'Shadow Raid Hour' under a parent of a battle class is a
\* Raid record.
ClassifierReached ==
    /\ pc = "pool"
    /\ Len(preliminary) = 1
    /\ preliminary[1].title = "Shadow Raid Hour"
    /\ preliminary[1].event_type = "Raid"
    /\ HintOf(ParentClass(soup, event_items[1]), "battle")
    /\ ~HintOf(ParentClass(soup, event_items[1]), "raid")

\* The successful insert requests of the run, by their place in the log
Inserted == { i \in 1..Len(log) : log[i].op = "insert" /\ log[i].ok }

\* The entry the calendar holds for the insert request at place i of the log
InsertedEntry(i) ==
    LET id == "new" \o DigitStr(Cardinality({ j \in Inserted : j <= i }))
    IN  calendar[CHOOSE k \in 1..Len(calendar) : calendar[k].id = id]

\* The record of the insert request at place i of the log
InsertedRecord(i) == objs[selected_events[log[i].event]]

\* The rule of the whole-day form: a multi-day record from before 2 o'clock
\* to an hour after 21, or a single-day record that starts before 10:00, ends
\* after 18:00 and spans 7 hours or more
WholeDayRule(event) ==
    LET st == Get(event.start_time)
        en == Get(event.end_time)
    IN  \/ IsMultiDay(event) /\ st.hour < 2 /\ en.hour > 21
        \/ /\ ~IsMultiDay(event)
           /\ MinuteOfDay(st) < 10 * 60
           /\ MinuteOfDay(en) > 18 * 60
           /\ MinuteOfDay(en) - MinuteOfDay(st) >= 7 * 60

\* C21: every entry the run inserts has the whole-day form when its record
\* meets the rule of the whole-day form, with the record's start date and the
\* day after its end date, and the timed form of the record's start and end
\* otherwise.
SchedulingForm ==
    \A i \in Inserted :
        LET event == InsertedRecord(i)
            entry == InsertedEntry(i)
        IN  IF WholeDayRule(event)
            THEN /\ entry.start = AllDay(IsoDate(DateOf(Get(event.start_time))))
                 /\ entry.end = AllDay(IsoDate(NextDay(DateOf(Get(event.end_time)))))
            ELSE /\ entry.start = Timed(IsoDateTime(Get(event.start_time)))
                 /\ entry.end = Timed(IsoDateTime(Get(event.end_time)))

\* C22: a record whose detail page shows a text of the canonical shape as its
\* start holds, after an enrichment that did not raise, the instant the text
\* denotes as its detailed start, and a record whose page shows a text that
\* departs from the shape (a missing comma, a 24-hour time, a missing year,
\* text after the time) holds none.
NormalizerExact ==
    \A f \in Finished :
        (~futures[f].raised /\ futures[f].url \in DateUrls) =>
            objs[futures[f].arg].detailed_start_time = DateTextAt(futures[f].url).instant

\* The reasons the report gives for a record it lists as skipped
SkipReasons ==
    { " (invalid dates)", " (already exists)", " (update declined)",
      " (update failed)", " (creation failed)" }

\* The places of the created list that name the record at p
CreatedOf(p) ==
    { k \in 1..Len(created_events) : created_events[k] = objs[selected_events[p]].title }

\* The places of the skipped list that name the record at p, with a reason
SkippedOf(p) ==
    { k \in 1..Len(skipped_events) :
        \E reason \in SkipReasons :
            skipped_events[k] = objs[selected_events[p]].title \o reason }

\* C23: when the run has shown its report, the created and the skipped list
\* together have one line for each selected record, each record is named by
\* one line of one of the two lists, and it is named by the created list
\* exactly when its insert request succeeded.
ReportAccounting ==
    pc = "closed" =>
        /\ Len(created_events) + Len(skipped_events) = Len(selected_events)
        /\ \A p \in 1..Len(selected_events) :
               /\ Cardinality(CreatedOf(p)) + Cardinality(SkippedOf(p)) = 1
               /\ CreatedOf(p) # {} <=> \E k \in Ops(p, "insert") : log[k].ok

\* C23, reached: the report of a run over two records, one whose old entry
\* was deleted and one whose insert request failed, with one record created.
ReportAccountingReached ==
    /\ pc = "closed"
    /\ Len(selected_events) = 2
    /\ Len(created_events) = 1
    /\ Len(updated_events) = 1
    /\ \E p \in 1..2 : IsSkipped(objs[selected_events[p]], " (creation failed)")

\* The calendar holds the entry the run builds for the record at p
HoldsEntryOf(p) ==
    \E k \in 1..Len(calendar) :
        /\ calendar[k].summary = event_title(objs[selected_events[p]])
        /\ calendar[k].start = EventStart(objs[selected_events[p]])

\* C24: when the run has shown its report, the calendar holds the entry of
\* every record the updated list names as new, and every entry the run
\* removed from the calendar has the entry of the record that replaced it in
\* the calendar.
UpdateReportSound ==
    pc = "closed" =>
        /\ \A u \in 1..Len(updated_events) :
               \E p \in 1..Len(selected_events) :
                   /\ objs[selected_events[p]].title = updated_events[u][2]
                   /\ HoldsEntryOf(p)
        /\ \A k \in 1..Len(log) :
               (log[k].op = "delete" /\ log[k].ok) => HoldsEntryOf(log[k].event)

\* The delete requests the run sent for the entry of an id
DeletesOf(id) == { k \in 1..Len(log) : log[k].op = "delete" /\ log[k].id = id }

\* C25: the run sends at most one delete request for the entry of an id, and
\* the entry it asks the user to update is never one it has deleted.
SingleDelete ==
    /\ \A n \in 1..Len(existing_events) :
           Cardinality(DeletesOf(existing_events[n].id)) <= 1
    /\ pc = "ask" =>
           \A k \in DeletesOf(Get(flags.existing_event_id)) : ~log[k].ok

\* C26: in a run on a calendar that lists the entry an earlier run inserted
\* for each record, no confirmation is asked, no delete and no insert request
\* is sent, and every selected record is reported as already existing.
InsertMatchRoundTrip ==
    (\E k \in 1..Len(log) : log[k].op = "list" /\ log[k].ok) =>
        /\ \A k \in 1..Len(log) : log[k].op \notin { "askyesno", "delete", "insert" }
        /\ pc = "closed" =>
               \A p \in 1..Len(selected_events) :
                   IsSkipped(objs[selected_events[p]], " (already exists)")

\* C27: for every node found that has a title of 3 characters or more and a
\* link, the output holds a record of that title, whatever nodes of the same
\* title were found before it.
TitleCoverage ==
    pc = "pool" =>
        \A k \in 1..Len(event_items) :
            (Len(FoundTitle(k)) >= 3 /\ IsSome(soup[event_items[k]].node.href)) =>
                \E i \in 1..Len(preliminary) : preliminary[i].title = FoundTitle(k)

====
